---- MODULE Spec2Model ----
(***************************************************************************)
(* A model of the S3 bucket manager: the storage service wrapper           *)
(* (S3Service), the page component that owns the UI state (Index) and the  *)
(* file browser's dialogs and handlers (FileBrowser).                      *)
(*                                                                         *)
(* Strings are sequences of one-character strings, so that slice, split,   *)
(* replace, lastIndexOf and trim are computed as the code computes them.   *)
(* An object's body is modelled by its length in bytes (a natural number). *)
(***************************************************************************)
EXTENDS Integers, Sequences, FiniteSets, TLC

VARIABLES
    bucket,         \* the bucket: a function from the keys it holds to their bodies
    isConnected,    \* Index: isConnected
    credentials,    \* Index: credentials (NoCredentials when null)
    currentPath,    \* Index: currentPath
    files,          \* Index: files, the listing shown
    selectedFile,   \* Index: selectedFile (NoFile when null)
    selectedFiles,  \* Index: selectedFiles
    loading,        \* Index: loading
    showRename,     \* FileBrowser: showRename
    fileToRename,   \* FileBrowser: fileToRename (NoFile when null)
    renameName,     \* FileBrowser: renameName
    showCreateFolder, \* FileBrowser: showCreateFolder
    newFolderName,  \* FileBrowser: newFolderName
    task,           \* the handler in flight and its position
    log,            \* the storage requests of the current user action, in order
    before,         \* the bucket as it was when the current user action started
    notice,         \* how the last finished user action was reported
    actions,        \* the number of user events handled so far
    call,           \* the arguments of a call of a pure function under check
    ret,            \* the result of that call
    viewMode,       \* FileBrowser: viewMode
    imageUrls,      \* FileBrowser: imageUrls, the thumbnail URL of each key that has one
    urlCalls,       \* the onGetFileUrl calls in flight, counted per key
    imgLoads,       \* the keys whose thumbnail <img> is loading its URL
    sent,           \* the number of thumbnail requests issued so far
    failed,         \* the thumbnail requests that failed since the last user event
    retried,        \* the thumbnail requests issued again after they had failed
    formData,       \* S3ConnectionForm: formData
    rememberCredentials, \* S3ConnectionForm: rememberCredentials
    error,          \* S3ConnectionForm: error ("" when none)
    localStorage,   \* the item "s3-credentials": <<>> when absent, else <<its text>>
    connects,       \* the handleConnect calls in flight
    reloads,        \* the credentials of the loadFiles calls in flight
    tested,         \* the credentials testConnection has succeeded for since the last load
    issued,         \* the calls made since the last load, each with its credentials
    writes,         \* the writes of the item so far
    bootLog,        \* what the last application load found in local storage and did
    disconnected,   \* handleDisconnect has run and nothing was submitted since
    showShare,      \* FileBrowser: showShare
    fileToShare,    \* FileBrowser: fileToShare (NoFile when null)
    shareExpiresIn, \* FileBrowser: shareExpiresIn
    shareUrl,       \* FileBrowser: shareUrl: <<>> when "", else <<the URL>>
    shareCalls,     \* the onShare calls in flight
    searchTerm,     \* Index: searchTerm
    filterType,     \* Index: filterType
    sortBy,         \* Index: sortBy
    sortOrder,      \* Index: sortOrder
    loads,          \* the loadFiles calls in flight, in the order they were made
    latest,         \* the loadFiles call made last: its path and how it ended
    uploads         \* the handleUpload calls awaiting uploadFile, each with its path

vars == <<bucket, isConnected, credentials, currentPath, files, selectedFile,
          selectedFiles, loading, showRename, fileToRename, renameName,
          showCreateFolder, newFolderName, task, log, before, notice, actions,
          call, ret, viewMode, imageUrls, urlCalls, imgLoads, sent, failed, retried,
          formData, rememberCredentials, error, localStorage, connects, reloads,
          tested, issued, writes, bootLog, disconnected,
          showShare, fileToShare, shareExpiresIn, shareUrl, shareCalls,
          searchTerm, filterType, sortBy, sortOrder, loads, latest, uploads>>

\* The thumbnails of the grid view
thumbVars == <<viewMode, imageUrls, urlCalls, imgLoads, sent, failed, retried>>

\* The connection form, the stored credentials and the connection attempts
sessionVars == <<formData, rememberCredentials, error, localStorage, connects, reloads,
                 tested, issued, writes, bootLog, disconnected>>

\* The share dialog
shareVars == <<showShare, fileToShare, shareExpiresIn, shareUrl, shareCalls>>

\* The search, filter and sort controls of the sidebar
sortVars == <<searchTerm, filterType, sortBy, sortOrder>>

\* The list requests and uploads in flight side by side
navVars == <<loads, latest, uploads>>

uiVars == <<isConnected, credentials, currentPath, files, selectedFile,
            selectedFiles, loading, showRename, fileToRename, renameName,
            showCreateFolder, newFolderName, task, log, before, notice, actions,
            thumbVars, sessionVars, shareVars, sortVars, navVars>>

(***************************************************************************)
(* Bounds of the model.                                                    *)
(***************************************************************************)
MaxKeyLen == 3
MaxObjects == 3
MaxNameLen == 3
MaxSelected == 2
MaxActions == 5

(***************************************************************************)
(* Strings.                                                                *)
(***************************************************************************)
Slash == "/"
Dot == "."
Space == " "

\* String.prototype.startsWith
StartsWith(s, p) ==
    /\ Len(p) <= Len(s)
    /\ SubSeq(s, 1, Len(p)) = p

\* String.prototype.endsWith, for a one-character suffix
EndsWith(s, c) == Len(s) > 0 /\ s[Len(s)] = c

\* String.prototype.slice(n) and substring(n): the string from index n (0-based)
Slice(s, n) == SubSeq(s, n + 1, Len(s))

\* String.prototype.substring(0, n)
Substring0(s, n) == SubSeq(s, 1, n)

\* String.prototype.includes, for one character
Includes(s, c) == \E i \in 1..Len(s) : s[i] = c

\* String.prototype.indexOf, for one character: 0-based, -1 when absent
IndexOf(s, c) ==
    IF Includes(s, c)
    THEN (CHOOSE i \in 1..Len(s) : s[i] = c /\ \A j \in 1..(i - 1) : s[j] # c) - 1
    ELSE -1

\* String.prototype.lastIndexOf, for one character: 0-based, -1 when absent
LastIndexOf(s, c) ==
    IF Includes(s, c)
    THEN (CHOOSE i \in 1..Len(s) : s[i] = c /\ \A j \in (i + 1)..Len(s) : s[j] # c) - 1
    ELSE -1

\* String.prototype.replace(c, ""): the FIRST occurrence of c removed
ReplaceFirst(s, c) ==
    IF Includes(s, c)
    THEN SubSeq(s, 1, IndexOf(s, c)) \o SubSeq(s, IndexOf(s, c) + 2, Len(s))
    ELSE s

\* String.prototype.replace(p, ""), for a string p: the first occurrence removed
ReplaceFirstStr(s, p) ==
    IF \E i \in 0..(Len(s) - Len(p)) : SubSeq(s, i + 1, i + Len(p)) = p
    THEN LET i == CHOOSE i \in 0..(Len(s) - Len(p)) :
                      /\ SubSeq(s, i + 1, i + Len(p)) = p
                      /\ \A j \in 0..(i - 1) : SubSeq(s, j + 1, j + Len(p)) # p
         IN SubSeq(s, 1, i) \o SubSeq(s, i + Len(p) + 1, Len(s))
    ELSE s

\* String.prototype.split(c): the segments between the occurrences of c
RECURSIVE Split(_, _)
Split(s, c) ==
    IF ~Includes(s, c)
    THEN <<s>>
    ELSE <<SubSeq(s, 1, IndexOf(s, c))>> \o Split(Slice(s, IndexOf(s, c) + 1), c)

\* Array.prototype.join(c)
RECURSIVE Join(_, _)
Join(parts, c) ==
    IF Len(parts) = 0 THEN <<>>
    ELSE IF Len(parts) = 1 THEN parts[1]
    ELSE parts[1] \o <<c>> \o Join(Tail(parts), c)

\* String.prototype.trim: leading and trailing white space removed
RECURSIVE Trim(_)
Trim(s) ==
    IF Len(s) > 0 /\ s[1] = Space THEN Trim(Tail(s))
    ELSE IF Len(s) > 0 /\ s[Len(s)] = Space THEN Trim(SubSeq(s, 1, Len(s) - 1))
    ELSE s

\* The collation rank of a character: white space, punctuation, letters
CharRank(c) ==
    CASE c = " " -> 0
      [] c = "." -> 1
      [] c = "/" -> 2
      [] c = "a" -> 3
      [] c = "b" -> 4
      [] OTHER -> 5

\* String.prototype.localeCompare: negative, zero or positive
RECURSIVE LocaleCompare(_, _)
LocaleCompare(a, b) ==
    IF Len(a) = 0 /\ Len(b) = 0 THEN 0
    ELSE IF Len(a) = 0 THEN -1
    ELSE IF Len(b) = 0 THEN 1
    ELSE IF CharRank(a[1]) < CharRank(b[1]) THEN -1
    ELSE IF CharRank(a[1]) > CharRank(b[1]) THEN 1
    ELSE LocaleCompare(Tail(a), Tail(b))

\* The order of keys in a ListObjectsV2 response (by code unit)
KeyBefore(a, b) == LocaleCompare(a, b) < 0

\* All strings over alphabet of length at most n
StringsUpTo(alphabet, n) == UNION {[1..m -> alphabet] : m \in 0..n}

(***************************************************************************)
(* The storage service (the bucket behind the S3 client).                  *)
(***************************************************************************)
Keys(b) == DOMAIN b

EmptyBucket == [k \in {} |-> 0]

\* PutObject, and the destination side of CopyObject: the object is replaced
PutObject(b, key, body) == [k \in Keys(b) \cup {key} |-> IF k = key THEN body ELSE b[k]]

\* DeleteObject: succeeds whether or not the key exists
DeleteObject(b, key) == [k \in Keys(b) \ {key} |-> b[k]]

\* A set of keys as the sequence in which a list response returns them
RECURSIVE SortedKeys(_)
SortedKeys(S) ==
    IF S = {} THEN <<>>
    ELSE LET m == CHOOSE x \in S : \A y \in S \ {x} : KeyBefore(x, y)
         IN <<m>> \o SortedKeys(S \ {m})

\* The common prefix a key is rolled up into: the prefix, the next segment and the delimiter
RollUp(key, prefix) ==
    SubSeq(key, 1, Len(prefix) + IndexOf(Slice(key, Len(prefix)), Slash) + 1)

\* The number of keys one ListObjectsV2 response holds at most when the request
\* names no MaxKeys (1000 at the service, scaled down here); the requests of
\* S3Service name none and never ask for the page after the first
MaxKeys == 4

\* The first page of a sequence of keys
FirstPage(keys) == SubSeq(keys, 1, IF Len(keys) < MaxKeys THEN Len(keys) ELSE MaxKeys)

\* ListObjectsV2 with Prefix and, when delimited, Delimiter "/": the first page
\* of the keys and common prefixes, which count alike and come in key order
ListObjectsV2(b, prefix, delimited) ==
    LET matching == {k \in Keys(b) : StartsWith(k, prefix)}
        rolled == IF delimited
                  THEN {k \in matching : Includes(Slice(k, Len(prefix)), Slash)}
                  ELSE {}
        commonPrefixes == {RollUp(k, prefix) : k \in rolled}
        page == FirstPage(SortedKeys((matching \ rolled) \cup commonPrefixes))
        keys == SelectSeq(page, LAMBDA k : k \in matching \ rolled)
    IN [Contents |-> [i \in 1..Len(keys) |-> [Key |-> keys[i], Size |-> b[keys[i]]]],
        CommonPrefixes |-> SelectSeq(page, LAMBDA k : k \in commonPrefixes)]

(***************************************************************************)
(* S3Service.listFiles                                                     *)
(***************************************************************************)
NoFile == [key |-> <<>>, name |-> <<>>, size |-> 0, type |-> "none"]

\* The comparator of the final sort: folders first, then by name
ListCompare(a, b) ==
    IF a.type # b.type
    THEN (IF a.type = "folder" THEN -1 ELSE 1)
    ELSE LocaleCompare(a.name, b.name)

\* Array.prototype.sort with ListCompare (a stable insertion sort)
RECURSIVE InsertListed(_, _)
InsertListed(sorted, e) ==
    IF Len(sorted) = 0 THEN <<e>>
    ELSE IF ListCompare(e, sorted[1]) < 0 THEN <<e>> \o sorted
    ELSE <<sorted[1]>> \o InsertListed(Tail(sorted), e)

RECURSIVE SortListing(_)
SortListing(s) ==
    IF Len(s) = 0 THEN <<>>
    ELSE InsertListed(SortListing(SubSeq(s, 1, Len(s) - 1)), s[Len(s)])

\* FolderEntries with a size that is not the constant 0
FolderEntriesSized(cp, prefix) ==
    LET folderName == ReplaceFirst(Slice(cp, Len(prefix)), Slash)
    IN IF folderName # <<>>
       THEN <<[key |-> cp, name |-> folderName, size |-> Len(cp), type |-> "folder"]>>
       ELSE <<>>

\* The folder entry pushed for one common prefix (none when the name is empty)
FolderEntries(cp, prefix) ==
    LET folderName == ReplaceFirst(Slice(cp, Len(prefix)), Slash)
    IN IF folderName # <<>>
       THEN <<[key |-> cp, name |-> folderName, size |-> 0, type |-> "folder"]>>
       ELSE <<>>

\* FileEntries without the test that excludes the prefix's own object
FileEntriesWithPrefixObject(object, prefix) ==
    IF object.Key # <<>> /\ ~EndsWith(object.Key, Slash)
    THEN <<[key |-> object.Key, name |-> Slice(object.Key, Len(prefix)),
            size |-> object.Size, type |-> "file"]>>
    ELSE <<>>

\* The file entry pushed for one object of Contents (none for the prefix itself
\* and for keys ending with "/")
FileEntries(object, prefix) ==
    IF object.Key # <<>> /\ object.Key # prefix /\ ~EndsWith(object.Key, Slash)
    THEN <<[key |-> object.Key, name |-> Slice(object.Key, Len(prefix)),
            size |-> object.Size, type |-> "file"]>>
    ELSE <<>>

RECURSIVE AddFolders(_, _)
AddFolders(cps, prefix) ==
    IF Len(cps) = 0 THEN <<>>
    ELSE FolderEntries(cps[1], prefix) \o AddFolders(Tail(cps), prefix)

RECURSIVE AddFiles(_, _)
AddFiles(contents, prefix) ==
    IF Len(contents) = 0 THEN <<>>
    ELSE FileEntries(contents[1], prefix) \o AddFiles(Tail(contents), prefix)

listFiles(b, prefix) ==
    LET response == ListObjectsV2(b, prefix, TRUE)
    IN SortListing(AddFolders(response.CommonPrefixes, prefix)
                   \o AddFiles(response.Contents, prefix))

(***************************************************************************)
(* FileBrowser: the rename dialog's name computation.                      *)
(***************************************************************************)
\* getFileNameAndExtension: the name split at its last dot, unless the name is
\* a folder's, has no dot, or starts with its only dot
getFileNameAndExtension(fileName, isFile) ==
    IF ~isFile THEN [name |-> fileName, extension |-> <<>>]
    ELSE IF LastIndexOf(fileName, Dot) <= 0 THEN [name |-> fileName, extension |-> <<>>]
    ELSE [name |-> Substring0(fileName, LastIndexOf(fileName, Dot)),
          extension |-> Slice(fileName, LastIndexOf(fileName, Dot))]

\* The name handleRename hands to onRename
FinalName(file, typed) ==
    IF file.type = "file"
    THEN Trim(typed) \o getFileNameAndExtension(file.name, file.type = "file").extension
    ELSE Trim(typed)

(***************************************************************************)
(* S3Service.renameFile and uploadFile: the keys they write.               *)
(***************************************************************************)
\* renameFile: the last "/"-separated part of the old key replaced by the new name
RenameKey(oldKey, newName) ==
    LET pathParts == Split(oldKey, Slash)
    IN Join([pathParts EXCEPT ![Len(pathParts)] = newName], Slash)

\* uploadFile: the key of an uploaded file
UploadKey(path, fileName) == IF path # <<>> THEN path \o fileName ELSE fileName

\* handleCreateFolder: the key of the folder's marker object
FolderKey(path, folderName) ==
    IF path # <<>> THEN path \o folderName \o <<Slash>> ELSE folderName \o <<Slash>>


(***************************************************************************)
(* The idle values of the UI state, and of the call harness.               *)
(***************************************************************************)
Idle == [op |-> "idle", pc |-> "idle", items |-> <<>>, i |-> 0, event |-> "none",
         path |-> <<>>, file |-> NoFile, name |-> <<>>]
NoCall == [op |-> "none", prefix |-> <<>>, file |-> NoFile, typed |-> <<>>]
NoRet == [done |-> FALSE, value |-> <<>>]

\* S3Credentials, and the value that stands for null
Credentials(accessKey, bucketName) ==
    [accessKeyId |-> accessKey, secretAccessKey |-> "s", region |-> "us-east-1",
     bucketName |-> bucketName]
NoCredentials ==
    [accessKeyId |-> "null", secretAccessKey |-> "null", region |-> "null",
     bucketName |-> "null"]

\* No thumbnail URL
NoUrls == [k \in {} |-> 0]

ThumbInit ==
    /\ viewMode = "list"
    /\ imageUrls = NoUrls
    /\ urlCalls = [k \in {} |-> 0]
    /\ imgLoads = {}
    /\ sent = 0
    /\ failed = {}
    /\ retried = {}

\* S3ConnectionForm: the initial formData
FormEmpty ==
    [accessKeyId |-> "", secretAccessKey |-> "", region |-> "us-east-1", bucketName |-> ""]

\* No application load yet
NotLoaded == [loaded |-> FALSE, stored |-> <<>>, attempts |-> <<>>, after |-> <<>>]

SessionInit ==
    /\ formData = FormEmpty
    /\ rememberCredentials = FALSE
    /\ error = ""
    /\ localStorage = <<>>
    /\ connects = {}
    /\ reloads = {}
    /\ tested = {}
    /\ issued = {}
    /\ writes = {}
    /\ bootLog = NotLoaded
    /\ disconnected = FALSE

PageInit ==
    /\ isConnected = FALSE
    /\ credentials = NoCredentials
    /\ currentPath = <<>>
    /\ files = <<>>
    /\ selectedFile = NoFile
    /\ selectedFiles = <<>>
    /\ loading = FALSE
    /\ showRename = FALSE
    /\ fileToRename = NoFile
    /\ renameName = <<>>
    /\ showCreateFolder = FALSE
    /\ newFolderName = <<>>
    /\ task = Idle
    /\ log = <<>>
    /\ before = EmptyBucket
    /\ notice = "none"
    /\ actions = 0

ShareInit ==
    /\ showShare = FALSE
    /\ fileToShare = NoFile
    /\ shareExpiresIn = 3600
    /\ shareUrl = <<>>
    /\ shareCalls = {}

SortInit ==
    /\ searchTerm = <<>>
    /\ filterType = "all"
    /\ sortBy = "name"
    /\ sortOrder = "asc"

\* No loadFiles call has been made
NoLoad == [path |-> <<>>, state |-> "none"]
NavInit ==
    /\ loads = <<>>
    /\ latest = NoLoad
    /\ uploads = {}

UiInit == PageInit /\ ThumbInit /\ SessionInit /\ ShareInit /\ SortInit /\ NavInit

(***************************************************************************)
(* SpecList: listFiles applied to every bounded bucket and prefix.         *)
(***************************************************************************)
ListAlphabet == {"a", Slash}
ListKeys == StringsUpTo(ListAlphabet, MaxKeyLen) \ {<<>>}
ListPrefixes == StringsUpTo(ListAlphabet, MaxKeyLen - 1)
ListBodies == {1}
\* The subsets of S with at most n elements
RECURSIVE SubsetsUpTo(_, _)
SubsetsUpTo(S, n) ==
    IF n = 0 THEN {{}}
    ELSE LET smaller == SubsetsUpTo(S, n - 1)
         IN smaller \cup {T \cup {x} : T \in smaller, x \in S}

ListBuckets == UNION {[ks -> ListBodies] : ks \in SubsetsUpTo(ListKeys, MaxObjects)}

InitList ==
    /\ UiInit
    /\ bucket \in ListBuckets
    /\ \E P \in ListPrefixes : call = [NoCall EXCEPT !.op = "listFiles", !.prefix = P]
    /\ ret = NoRet

CallListFiles ==
    /\ call.op = "listFiles"
    /\ ~ret.done
    /\ ret' = [done |-> TRUE, value |-> listFiles(bucket, call.prefix)]
    /\ UNCHANGED <<bucket, call>>
    /\ UNCHANGED uiVars

NextList == CallListFiles

SpecList == InitList /\ [][NextList]_vars

\* C1: every entry listFiles(P) returns has a key that starts with P and is not P;
\* a file's name is its key with P removed and holds no "/"; a folder's key is
\* P + name + "/".
C1_ListedUnderPrefix ==
    (call.op = "listFiles" /\ ret.done) =>
        \A i \in 1..Len(ret.value) :
            LET e == ret.value[i]
                P == call.prefix
            IN /\ StartsWith(e.key, P)
               /\ e.key # P
               /\ e.type \in {"file", "folder"}
               /\ e.type = "file" => (e.key = P \o e.name /\ ~Includes(e.name, Slash))
               /\ e.type = "folder" => e.key = P \o e.name \o <<Slash>>

\* A listing of a non-empty prefix that holds a folder and a file, from a bucket
\* that also holds a key outside the prefix.
C1_Witness ==
    /\ call.op = "listFiles" /\ ret.done
    /\ call.prefix # <<>>
    /\ \E k \in Keys(bucket) : ~StartsWith(k, call.prefix)
    /\ \E i, j \in 1..Len(ret.value) :
          ret.value[i].type = "folder" /\ ret.value[j].type = "file"

(***************************************************************************)
(* SpecRename: the rename dialog's name computation applied to every       *)
(* bounded entry name and typed name.                                      *)
(***************************************************************************)
NameAlphabet == {"a", Dot, Space}
EntryNames == StringsUpTo(NameAlphabet, MaxNameLen) \ {<<>>}
TypedStrings == StringsUpTo(NameAlphabet, MaxNameLen)

InitRename ==
    /\ UiInit
    /\ bucket = EmptyBucket
    /\ \E n \in EntryNames, t \in TypedStrings, ty \in {"file", "folder"} :
          call = [NoCall EXCEPT !.op = "rename",
                                !.file = [key |-> n, name |-> n, size |-> 1, type |-> ty],
                                !.typed = t]
    /\ ret = NoRet

\* FileBrowser.handleRename up to its call of onRename (nothing happens for a blank name)
CallRename ==
    /\ call.op = "rename"
    /\ ~ret.done
    /\ Trim(call.typed) # <<>>
    /\ ret' = [done |-> TRUE, value |-> FinalName(call.file, call.typed)]
    /\ UNCHANGED <<bucket, call>>
    /\ UNCHANGED uiVars

NextRename == CallRename

SpecRename == InitRename /\ [][NextRename]_vars

\* C2: the name handed to the rename operation for a file is the trimmed base
\* name followed by the original extension, and the renamed file's extension
\* equals the original file's extension.
C2_RenamePreservesExtension ==
    (call.op = "rename" /\ ret.done /\ call.file.type = "file") =>
        /\ ret.value = Trim(call.typed)
                         \o getFileNameAndExtension(call.file.name, TRUE).extension
        /\ getFileNameAndExtension(ret.value, TRUE).extension
             = getFileNameAndExtension(call.file.name, TRUE).extension

(***************************************************************************)
(* Spec: the application, one user action at a time.  A user action that   *)
(* calls the storage service is a task: the handler's position advances    *)
(* by one storage request per step, and each request may fail.  The user   *)
(* makes at most MaxActions clicks and inputs.                             *)
(***************************************************************************)
\* The buckets the application may be connected to
InitialBuckets ==
    { (<<"a">> :> 1) @@ (<<"b", "/">> :> 0) @@ (<<"b", "/", "a">> :> 2),
      (<<"a", ".", "b">> :> 1) @@ (<<"b", "/", "a">> :> 2) }

\* The files the user may pick for an upload, and the lists picked
UploadCandidates == {[name |-> <<"a">>, size |-> 3], [name |-> <<"b">>, size |-> 3]}
UploadLists ==
    {fs \in UNION {[1..n -> UploadCandidates] : n \in 1..Cardinality(UploadCandidates)} :
        \A i, j \in 1..Len(fs) : i < j => KeyBefore(fs[i].name, fs[j].name)}

\* What the user may type into the rename and new-folder dialogs
TypedNames == {<<"a">>, <<"b">>, <<"b", "/", "a">>}
FolderNames == {<<"b">>}

Busy == task.pc \notin {"idle", "done"}
Ready == ~Busy
\* The render gate of Index without isConnected
CredentialsHeld == credentials # NoCredentials
\* The render gate of Index: the dashboard is shown
Dashboard == isConnected /\ credentials # NoCredentials

\* The dialogs are modal: while one is open, the page behind it takes no input
NoDialog == ~showRename /\ ~showCreateFolder

\* A storage request as recorded: the command, its key, the destination of a
\* copy, whether it succeeded, and the UI event whose handler sent it
Req(op, key, to, ok) == [op |-> op, key |-> key, to |-> to, ok |-> ok, event |-> task.event]

\* The start of a task: the handler called for a UI event
Begin(op, pc, event) ==
    [Idle EXCEPT !.op = op, !.pc = pc, !.event = event, !.path = currentPath]

\* The entries the browser shows (with the default search, filter and sort)
Displayed == files

\* Index.loadFiles once its list request has completed: a failure is logged to
\* the console and nothing else
LoadFiles(path, ok) ==
    /\ log' = Append(log, Req("ListObjectsV2", path, <<>>, ok))
    /\ IF ok
       THEN files' = listFiles(bucket, path) /\ currentPath' = path
       ELSE UNCHANGED <<files, currentPath>>
    /\ loading' = FALSE

dialogVars == <<showRename, fileToRename, renameName, showCreateFolder, newFolderName>>
selectVars == <<selectedFile, selectedFiles>>
connVars == <<isConnected, credentials>>
harness == <<call, ret, thumbVars, sessionVars, shareVars, sortVars, navVars>>

Init ==
    /\ UiInit
    /\ bucket \in InitialBuckets
    /\ call = NoCall
    /\ ret = NoRet

----
\* S3ConnectionForm.handleSubmit with all fields filled in, calling Index.handleConnect
SubmitConnect ==
    /\ Ready /\ ~Dashboard
    /\ actions < MaxActions
    /\ actions' = actions + 1
    /\ task' = Begin("connect", "test", "submit")
    /\ loading' = TRUE
    /\ log' = <<>>
    /\ before' = bucket
    /\ notice' = "none"
    /\ UNCHANGED <<bucket, connVars, currentPath, files, selectVars, dialogVars, harness>>

\* handleConnect: testConnection has completed
ConnectTest ==
    /\ task.op = "connect" /\ task.pc = "test"
    /\ \E ok \in BOOLEAN :
        /\ log' = Append(log, Req("ListObjectsV2", <<>>, <<>>, ok))
        /\ IF ok
           THEN /\ credentials' = Credentials("k", "b")
                /\ isConnected' = TRUE
                /\ task' = [task EXCEPT !.pc = "list"]
                /\ UNCHANGED <<loading, notice>>
           ELSE /\ loading' = FALSE
                /\ notice' = "failure"
                /\ task' = [task EXCEPT !.pc = "done"]
                /\ UNCHANGED connVars
    /\ UNCHANGED <<bucket, currentPath, files, selectVars, dialogVars, actions, before, harness>>

\* handleConnect: listFiles("") has completed
ConnectList ==
    /\ task.op = "connect" /\ task.pc = "list"
    /\ \E ok \in BOOLEAN :
        /\ log' = Append(log, Req("ListObjectsV2", <<>>, <<>>, ok))
        /\ IF ok
           THEN files' = listFiles(bucket, <<>>) /\ currentPath' = <<>>
           ELSE UNCHANGED <<files, currentPath>>
        /\ notice' = IF ok THEN "success" ELSE "failure"
    /\ loading' = FALSE
    /\ task' = [task EXCEPT !.pc = "done"]
    /\ UNCHANGED <<bucket, connVars, selectVars, dialogVars, actions, before, harness>>

\* Index.handleDisconnect (the browser unmounts, so its dialogs are gone)
Disconnect ==
    /\ Ready /\ Dashboard /\ NoDialog
    /\ actions < MaxActions
    /\ actions' = actions + 1
    /\ isConnected' = FALSE
    /\ credentials' = NoCredentials
    /\ files' = <<>>
    /\ selectedFile' = NoFile
    /\ selectedFiles' = <<>>
    /\ currentPath' = <<>>
    /\ showRename' = FALSE /\ fileToRename' = NoFile /\ renameName' = <<>>
    /\ showCreateFolder' = FALSE /\ newFolderName' = <<>>
    /\ UNCHANGED <<bucket, loading, task, log, notice, before, harness>>

----
\* The paths the breadcrumb buttons navigate to
RECURSIVE NonEmptyParts(_)
NonEmptyParts(parts) ==
    IF Len(parts) = 0 THEN <<>>
    ELSE (IF parts[1] # <<>> THEN <<parts[1]>> ELSE <<>>) \o NonEmptyParts(Tail(parts))

pathSegments == NonEmptyParts(Split(currentPath, Slash))

BreadcrumbTargets ==
    {Join(SubSeq(pathSegments, 1, n), Slash) \o <<Slash>> : n \in 1..Len(pathSegments)}

\* Where onNavigate may be called: a click on a folder entry, the Root button,
\* a breadcrumb button, the refresh button
NavigateTargets ==
    {Displayed[i].key : i \in {j \in 1..Len(Displayed) : Displayed[j].type = "folder"}}
        \cup {<<>>} \cup BreadcrumbTargets \cup {currentPath}

\* Index.handleNavigate: loadFiles(path) is started
StartNavigate ==
    /\ Ready /\ Dashboard /\ NoDialog
    /\ actions < MaxActions
    /\ actions' = actions + 1
    /\ \E path \in NavigateTargets :
          task' = [Begin("navigate", "list", "navigate") EXCEPT !.path = path]
    /\ loading' = TRUE
    /\ log' = <<>>
    /\ before' = bucket
    /\ notice' = "none"
    /\ UNCHANGED <<bucket, connVars, currentPath, files, selectVars, dialogVars, harness>>

\* loadFiles(path) has completed
NavigateList ==
    /\ task.op = "navigate" /\ task.pc = "list"
    /\ \E ok \in BOOLEAN :
        /\ LoadFiles(task.path, ok)
        /\ notice' = IF ok THEN "none" ELSE "silent"
    /\ task' = [task EXCEPT !.pc = "done"]
    /\ UNCHANGED <<bucket, connVars, selectVars, dialogVars, actions, before, harness>>

----
\* FileBrowser.handleFileSelect on a file entry: Index.handleFileSelect
SelectFile ==
    /\ Ready /\ Dashboard /\ NoDialog
    /\ actions < MaxActions
    /\ actions' = actions + 1
    /\ \E i \in 1..Len(Displayed) :
        /\ Displayed[i].type = "file"
        /\ selectedFile' = Displayed[i]
    /\ UNCHANGED <<bucket, connVars, currentPath, files, selectedFiles, loading, dialogVars,
                   task, log, notice, before, harness>>

\* The preview's close button
ClosePreview ==
    /\ Ready /\ Dashboard /\ NoDialog
    /\ actions < MaxActions
    /\ actions' = actions + 1
    /\ selectedFile # NoFile
    /\ selectedFile' = NoFile
    /\ UNCHANGED <<bucket, connVars, currentPath, files, selectedFiles, loading, dialogVars,
                   task, log, notice, before, harness>>

IsSelected(file) == \E i \in 1..Len(selectedFiles) : selectedFiles[i].key = file.key

\* Array.prototype.filter((f) => f.key !== key)
RECURSIVE WithoutKey(_, _)
WithoutKey(fs, key) ==
    IF Len(fs) = 0 THEN <<>>
    ELSE (IF fs[1].key # key THEN <<fs[1]>> ELSE <<>>) \o WithoutKey(Tail(fs), key)

\* FileBrowser.handleMultiSelect: an entry's checkbox is toggled
ToggleSelect ==
    /\ Ready /\ Dashboard /\ NoDialog
    /\ actions < MaxActions
    /\ actions' = actions + 1
    /\ \E i \in 1..Len(Displayed) :
        IF IsSelected(Displayed[i])
        THEN selectedFiles' = WithoutKey(selectedFiles, Displayed[i].key)
        ELSE /\ Len(selectedFiles) < MaxSelected
             /\ selectedFiles' = Append(selectedFiles, Displayed[i])
    /\ UNCHANGED <<bucket, connVars, currentPath, files, selectedFile, loading, dialogVars,
                   task, log, notice, before, harness>>

\* FileBrowser.handleSelectAll
SelectAll ==
    /\ Ready /\ Dashboard /\ NoDialog
    /\ actions < MaxActions
    /\ actions' = actions + 1
    /\ Len(Displayed) <= MaxSelected
    /\ selectedFiles' = IF Len(selectedFiles) = Len(Displayed) THEN <<>> ELSE Displayed
    /\ UNCHANGED <<bucket, connVars, currentPath, files, selectedFile, loading, dialogVars,
                   task, log, notice, before, harness>>

----
\* A loop over items whose failed request is caught and thrown again: the loop
\* is left and the rest of the handler is skipped
AfterFailedItemKeepGoing(t) ==
    IF t.i < Len(t.items) THEN [t EXCEPT !.i = t.i + 1] ELSE [t EXCEPT !.pc = "reload"]

AfterFailedItem(t) == [t EXCEPT !.pc = "done"]

\* The loop after a request that succeeded: the next item, or the reload after the last
AfterItem(t) ==
    IF t.i < Len(t.items) THEN [t EXCEPT !.i = t.i + 1] ELSE [t EXCEPT !.pc = "reload"]

\* FileBrowser.handleFileInputChange / handleDrop with files picked: Index.handleUpload
StartUpload ==
    /\ Ready /\ Dashboard /\ NoDialog
    /\ actions < MaxActions
    /\ \E fs \in UploadLists :
          task' = [Begin("upload", "put", "upload") EXCEPT !.items = fs, !.i = 1]
    /\ actions' = actions + 1
    /\ log' = <<>>
    /\ before' = bucket
    /\ notice' = "none"
    /\ UNCHANGED <<bucket, connVars, currentPath, files, selectVars, loading, dialogVars, harness>>

\* handleUpload: uploadFile of the current file has completed
UploadPut ==
    /\ task.op = "upload" /\ task.pc = "put"
    /\ \E ok \in BOOLEAN :
        LET key == UploadKey(task.path, task.items[task.i].name)
        IN /\ log' = Append(log, Req("PutObject", key, <<>>, ok))
           /\ IF ok
              THEN /\ bucket' = PutObject(bucket, key, task.items[task.i].size)
                   /\ task' = AfterItem(task)
                   /\ notice' = notice
              ELSE /\ bucket' = bucket
                   /\ task' = AfterFailedItem(task)
                   /\ notice' = IF AfterFailedItem(task).pc = "done" THEN "failure" ELSE notice
    /\ loading' = (task'.pc = "reload")
    /\ UNCHANGED <<connVars, currentPath, files, selectVars, dialogVars, actions, before, harness>>

\* handleUpload: loadFiles(currentPath) has completed; "Upload Successful"
UploadReload ==
    /\ task.op = "upload" /\ task.pc = "reload"
    /\ \E ok \in BOOLEAN : LoadFiles(task.path, ok)
    /\ notice' = "success"
    /\ task' = [task EXCEPT !.pc = "done"]
    /\ UNCHANGED <<bucket, connVars, selectVars, dialogVars, actions, before, harness>>

----
\* FileBrowser.handleDelete (the toolbar's Delete button, shown with a selection)
StartDeleteToolbar ==
    /\ Ready /\ Dashboard /\ NoDialog
    /\ actions < MaxActions
    /\ Len(selectedFiles) > 0
    /\ task' = [Begin("delete", "delete", "toolbarDelete") EXCEPT
                    !.items = selectedFiles, !.i = 1]
    /\ actions' = actions + 1
    /\ log' = <<>>
    /\ before' = bucket
    /\ notice' = "none"
    /\ UNCHANGED <<bucket, connVars, currentPath, files, selectVars, loading, dialogVars, harness>>

\* The Delete item of an entry's menu: onDelete([file]), neither awaited nor caught
StartDeleteMenu ==
    /\ Ready /\ Dashboard /\ NoDialog
    /\ actions < MaxActions
    /\ \E i \in 1..Len(Displayed) :
          task' = [Begin("delete", "delete", "menuDelete") EXCEPT
                      !.items = <<Displayed[i]>>, !.i = 1]
    /\ actions' = actions + 1
    /\ log' = <<>>
    /\ before' = bucket
    /\ notice' = "none"
    /\ UNCHANGED <<bucket, connVars, currentPath, files, selectVars, loading, dialogVars, harness>>

\* How a rejected promise of a handler is reported: the toolbar and dialog
\* handlers catch it and show a failure toast; the menu items drop the promise
Rejected(event) ==
    IF event \in {"menuDelete", "menuDownload"} THEN "unhandled" ELSE "failure"

\* How a resolved promise of a handler is reported
Resolved(event) ==
    IF event \in {"menuDelete", "menuDownload"} THEN "none" ELSE "success"

\* Index.handleDelete: deleteFile of the current item has completed
DeleteItem ==
    /\ task.op = "delete" /\ task.pc = "delete"
    /\ \E ok \in BOOLEAN :
        LET key == task.items[task.i].key
        IN /\ log' = Append(log, Req("DeleteObject", key, <<>>, ok))
           /\ IF ok
              THEN /\ bucket' = DeleteObject(bucket, key)
                   /\ task' = AfterItem(task)
                   /\ notice' = notice
              ELSE /\ bucket' = bucket
                   /\ task' = AfterFailedItem(task)
                   /\ notice' = IF AfterFailedItem(task).pc = "done"
                                THEN Rejected(task.event) ELSE notice
    /\ loading' = (task'.pc = "reload")
    /\ UNCHANGED <<connVars, currentPath, files, selectVars, dialogVars, actions, before, harness>>

\* Index.handleDelete: loadFiles(currentPath) has completed; the selection is cleared
DeleteReload ==
    /\ task.op = "delete" /\ task.pc = "reload"
    /\ \E ok \in BOOLEAN : LoadFiles(task.path, ok)
    /\ selectedFiles' = <<>>
    /\ selectedFile' = NoFile
    /\ notice' = Resolved(task.event)
    /\ task' = [task EXCEPT !.pc = "done"]
    /\ UNCHANGED <<bucket, connVars, dialogVars, actions, before, harness>>

----
\* The Rename item of an entry's menu
OpenRename ==
    /\ Ready /\ Dashboard /\ NoDialog
    /\ actions < MaxActions
    /\ actions' = actions + 1
    /\ \E i \in 1..Len(Displayed) :
        /\ fileToRename' = Displayed[i]
        /\ renameName' =
              getFileNameAndExtension(Displayed[i].name, Displayed[i].type = "file").name
    /\ showRename' = TRUE
    /\ UNCHANGED <<bucket, connVars, currentPath, files, selectVars, loading,
                   showCreateFolder, newFolderName, task, log, notice, before, harness>>

\* The rename dialog's input
TypeRenameName ==
    /\ Ready /\ Dashboard /\ showRename
    /\ actions < MaxActions
    /\ actions' = actions + 1
    /\ \E t \in TypedNames : renameName' = t
    /\ UNCHANGED <<bucket, connVars, currentPath, files, selectVars, loading, showRename,
                   fileToRename, showCreateFolder, newFolderName, task, log, notice, before, harness>>

\* The rename dialog's Cancel button
CancelRename ==
    /\ Ready /\ Dashboard /\ showRename
    /\ actions < MaxActions
    /\ actions' = actions + 1
    /\ showRename' = FALSE
    /\ UNCHANGED <<bucket, connVars, currentPath, files, selectVars, loading, fileToRename,
                   renameName, showCreateFolder, newFolderName, task, log, notice, before, harness>>

\* FileBrowser.handleRename with a file to rename and a non-blank name:
\* Index.handleRename(fileToRename, finalName)
StartRename ==
    /\ Ready /\ Dashboard /\ showRename
    /\ actions < MaxActions
    /\ fileToRename # NoFile
    /\ Trim(renameName) # <<>>
    /\ task' = [Begin("rename", "copy", "rename") EXCEPT
                    !.file = fileToRename, !.name = FinalName(fileToRename, renameName)]
    /\ actions' = actions + 1
    /\ log' = <<>>
    /\ before' = bucket
    /\ notice' = "none"
    /\ UNCHANGED <<bucket, connVars, currentPath, files, selectVars, loading, dialogVars, harness>>

\* CopyObject fails when the source does not exist and when an object is
\* copied onto itself; otherwise it may succeed
CopyPossible(b, from, to) == from \in Keys(b) /\ from # to

\* renameFile after its copy request: the delete is sent next, unless the copy
\* failed and the error is thrown
AfterCopyAlwaysDelete(t, ok) == [t EXCEPT !.pc = "delete"]

AfterCopy(t, ok) == [t EXCEPT !.pc = IF ok THEN "delete" ELSE "done"]

\* renameFile: the copy to the new key has completed
RenameCopy ==
    /\ task.op = "rename" /\ task.pc = "copy"
    /\ \E ok \in BOOLEAN :
        LET oldKey == task.file.key
            newKey == RenameKey(oldKey, task.name)
        IN /\ ok => CopyPossible(bucket, oldKey, newKey)
           /\ log' = Append(log, Req("CopyObject", oldKey, newKey, ok))
           /\ bucket' = IF ok THEN PutObject(bucket, newKey, bucket[oldKey]) ELSE bucket
           /\ task' = AfterCopy(task, ok)
           /\ notice' = IF AfterCopy(task, ok).pc = "done" THEN "failure" ELSE notice
    /\ UNCHANGED <<connVars, currentPath, files, selectVars, loading, dialogVars, actions, before, harness>>

\* renameFile: deleteFile(oldKey) has completed
RenameDelete ==
    /\ task.op = "rename" /\ task.pc = "delete"
    /\ \E ok \in BOOLEAN :
        /\ log' = Append(log, Req("DeleteObject", task.file.key, <<>>, ok))
        /\ bucket' = IF ok THEN DeleteObject(bucket, task.file.key) ELSE bucket
        /\ task' = [task EXCEPT !.pc = IF ok THEN "reload" ELSE "done"]
        /\ notice' = IF ok THEN notice ELSE "failure"
        /\ loading' = ok
    /\ UNCHANGED <<connVars, currentPath, files, selectVars, dialogVars, actions, before, harness>>

\* Index.handleRename: loadFiles(currentPath) has completed; the dialog is closed
RenameReload ==
    /\ task.op = "rename" /\ task.pc = "reload"
    /\ \E ok \in BOOLEAN : LoadFiles(task.path, ok)
    /\ showRename' = FALSE
    /\ renameName' = <<>>
    /\ fileToRename' = NoFile
    /\ notice' = "success"
    /\ task' = [task EXCEPT !.pc = "done"]
    /\ UNCHANGED <<bucket, connVars, selectVars, showCreateFolder, newFolderName, actions, before, harness>>

----
\* The New Folder button
OpenCreateFolder ==
    /\ Ready /\ Dashboard /\ NoDialog
    /\ actions < MaxActions
    /\ actions' = actions + 1
    /\ showCreateFolder' = TRUE
    /\ UNCHANGED <<bucket, connVars, currentPath, files, selectVars, loading, showRename,
                   fileToRename, renameName, newFolderName, task, log, notice, before, harness>>

\* The new-folder dialog's input
TypeFolderName ==
    /\ Ready /\ Dashboard /\ showCreateFolder
    /\ actions < MaxActions
    /\ actions' = actions + 1
    /\ \E t \in FolderNames : newFolderName' = t
    /\ UNCHANGED <<bucket, connVars, currentPath, files, selectVars, loading, showRename,
                   fileToRename, renameName, showCreateFolder, task, log, notice, before, harness>>

\* The new-folder dialog's Cancel button
CancelCreateFolder ==
    /\ Ready /\ Dashboard /\ showCreateFolder
    /\ actions < MaxActions
    /\ actions' = actions + 1
    /\ showCreateFolder' = FALSE
    /\ UNCHANGED <<bucket, connVars, currentPath, files, selectVars, loading, showRename,
                   fileToRename, renameName, newFolderName, task, log, notice, before, harness>>

\* FileBrowser.handleCreateFolder with a non-blank name: Index.handleCreateFolder
StartCreateFolder ==
    /\ Ready /\ Dashboard /\ showCreateFolder
    /\ actions < MaxActions
    /\ Trim(newFolderName) # <<>>
    /\ task' = [Begin("createFolder", "put", "createFolder") EXCEPT
                    !.name = Trim(newFolderName)]
    /\ actions' = actions + 1
    /\ log' = <<>>
    /\ before' = bucket
    /\ notice' = "none"
    /\ UNCHANGED <<bucket, connVars, currentPath, files, selectVars, loading, dialogVars, harness>>

\* handleCreateFolder: createFolder(folderPath) has completed
CreateFolderPut ==
    /\ task.op = "createFolder" /\ task.pc = "put"
    /\ \E ok \in BOOLEAN :
        LET key == FolderKey(task.path, task.name)
        IN /\ log' = Append(log, Req("PutObject", key, <<>>, ok))
           /\ bucket' = IF ok THEN PutObject(bucket, key, 0) ELSE bucket
           /\ task' = [task EXCEPT !.pc = IF ok THEN "reload" ELSE "done"]
           /\ notice' = IF ok THEN notice ELSE "failure"
           /\ loading' = ok
    /\ UNCHANGED <<connVars, currentPath, files, selectVars, dialogVars, actions, before, harness>>

\* handleCreateFolder: loadFiles(currentPath) has completed; the dialog is closed
CreateFolderReload ==
    /\ task.op = "createFolder" /\ task.pc = "reload"
    /\ \E ok \in BOOLEAN : LoadFiles(task.path, ok)
    /\ showCreateFolder' = FALSE
    /\ newFolderName' = <<>>
    /\ notice' = "success"
    /\ task' = [task EXCEPT !.pc = "done"]
    /\ UNCHANGED <<bucket, connVars, selectVars, showRename, fileToRename, renameName,
                   actions, before, harness>>

----
\* The Download item of a file entry's menu: onDownload(file), neither awaited nor caught
StartDownload ==
    /\ Ready /\ Dashboard /\ NoDialog
    /\ actions < MaxActions
    /\ actions' = actions + 1
    /\ \E i \in 1..Len(Displayed) :
        /\ Displayed[i].type = "file"
        /\ task' = [Begin("download", "get", "menuDownload") EXCEPT !.file = Displayed[i]]
    /\ log' = <<>>
    /\ before' = bucket
    /\ notice' = "none"
    /\ UNCHANGED <<bucket, connVars, currentPath, files, selectVars, loading, dialogVars, harness>>

\* Index.handleDownload: downloadFile has completed (GetObject fails for a missing key)
DownloadGet ==
    /\ task.op = "download" /\ task.pc = "get"
    /\ \E ok \in BOOLEAN :
        /\ ok => task.file.key \in Keys(bucket)
        /\ log' = Append(log, Req("GetObject", task.file.key, <<>>, ok))
        /\ notice' = IF ok THEN Resolved(task.event) ELSE Rejected(task.event)
    /\ task' = [task EXCEPT !.pc = "done"]
    /\ UNCHANGED <<bucket, connVars, currentPath, files, selectVars, loading, dialogVars,
                   actions, before, harness>>

----
Next ==
    \/ SubmitConnect \/ ConnectTest \/ ConnectList \/ Disconnect
    \/ StartNavigate \/ NavigateList
    \/ SelectFile \/ ClosePreview \/ ToggleSelect \/ SelectAll
    \/ StartUpload \/ UploadPut \/ UploadReload
    \/ StartDeleteToolbar \/ StartDeleteMenu \/ DeleteItem \/ DeleteReload
    \/ OpenRename \/ TypeRenameName \/ CancelRename
    \/ StartRename \/ RenameCopy \/ RenameDelete \/ RenameReload
    \/ OpenCreateFolder \/ TypeFolderName \/ CancelCreateFolder
    \/ StartCreateFolder \/ CreateFolderPut \/ CreateFolderReload
    \/ StartDownload \/ DownloadGet

Spec == Init /\ [][Next]_vars

(***************************************************************************)
(* Properties of Spec.                                                     *)
(***************************************************************************)
\* Every request of the current user action succeeded
AllOk == \A j \in 1..Len(log) : log[j].ok

\* The prefixes of the keys the bucket holds
KeyPrefixes(b) == UNION {{SubSeq(k, 1, n) : n \in 0..Len(k)} : k \in Keys(b)}

FolderSizeZero(entries) ==
    \A i \in 1..Len(entries) : entries[i].type = "folder" => entries[i].size = 0

\* C3: every folder entry listFiles returns has size 0, and so has every folder
\* entry held in files, selectedFile and selectedFiles.
C3_FolderSizeZero ==
    /\ \A P \in KeyPrefixes(bucket) : FolderSizeZero(listFiles(bucket, P))
    /\ FolderSizeZero(files)
    /\ FolderSizeZero(selectedFiles)
    /\ FolderSizeZero(<<selectedFile>>)

\* A selected folder entry, kept over an upload and the reload after it.
C3_Witness ==
    /\ task.op = "upload" /\ task.pc = "done" /\ AllOk
    /\ \E i \in 1..Len(selectedFiles) : selectedFiles[i].type = "folder"
    /\ \E i \in 1..Len(files) : files[i].type = "folder"

\* C4: renameFile sends the copy to the new key first and the delete of the old
\* key only after the copy succeeded; when the copy fails no delete is sent, the
\* bucket is as it was and the rename is reported as failed.
C4_CopyThenDelete ==
    task.op = "rename" =>
        /\ \A j \in 1..Len(log) :
            /\ j = 1 => /\ log[j].op = "CopyObject"
                        /\ log[j].key = task.file.key
                        /\ log[j].to = RenameKey(task.file.key, task.name)
            /\ log[j].op = "DeleteObject" =>
                  /\ j = 2
                  /\ log[1].op = "CopyObject" /\ log[1].ok
                  /\ log[j].key = task.file.key
        /\ (Len(log) >= 1 /\ ~log[1].ok) =>
              /\ Len(log) = 1
              /\ task.pc = "done"
              /\ notice = "failure"
              /\ bucket = before

\* A rename whose copy could have succeeded and failed.
C4_Witness ==
    /\ task.op = "rename" /\ task.pc = "done"
    /\ Len(log) = 1 /\ ~log[1].ok
    /\ CopyPossible(before, log[1].key, log[1].to)

\* The folder prefix of an entry: its key without its name (and, for a folder,
\* without the closing "/")
DirOf(file) ==
    SubSeq(file.key, 1,
           Len(file.key) - Len(file.name) - (IF file.type = "folder" THEN 1 ELSE 0))

HasEntry(entries, type, name) ==
    \E i \in 1..Len(entries) : entries[i].type = type /\ entries[i].name = name

\* C5: after handleRename succeeds for a file at D + old with new name n, the
\* bucket holds the file's content at D + n and nothing at D + old (unless n is
\* old), and the refreshed listing of D shows an entry named n.
C5_FileRenamedInPlace ==
    (task.op = "rename" /\ task.pc = "done" /\ AllOk /\ task.file.type = "file") =>
        LET D == DirOf(task.file)
            old == task.file.name
            n == task.name
        IN /\ (D \o n) \in Keys(bucket)
           /\ bucket[D \o n] = before[D \o old]
           /\ n # old => (D \o old) \notin Keys(bucket)
           /\ currentPath = D
           /\ \E i \in 1..Len(files) : files[i].name = n

\* C6: after a successful rename of the folder D + f + "/" to n, the listing of
\* D shows a folder named n that holds the former contents of f, and no folder
\* named f.
C6_FolderRenamedInPlace ==
    (task.op = "rename" /\ task.pc = "done" /\ AllOk /\ task.file.type = "folder"
        /\ task.name # task.file.name) =>
        LET D == DirOf(task.file)
            F == task.file.key
            N == D \o task.name \o <<Slash>>
        IN /\ currentPath = D
           /\ HasEntry(files, "folder", task.name)
           /\ ~HasEntry(files, "folder", task.file.name)
           /\ \A k \in Keys(before) :
                StartsWith(k, F) =>
                    /\ (N \o Slice(k, Len(F))) \in Keys(bucket)
                    /\ bucket[N \o Slice(k, Len(F))] = before[k]

\* The UI events by which the user chooses Delete
DeleteChoices == {"toolbarDelete", "menuDelete"}

\* C7: no delete request of a delete action is sent by the handler of the
\* Delete choice itself: it is sent only by a separate confirming step.
C7_DeleteAfterConfirmation ==
    task.op = "delete" =>
        \A j \in 1..Len(log) :
            log[j].op = "DeleteObject" => log[j].event \notin DeleteChoices

\* C8: after handleDelete succeeds for a folder entry with key F, the bucket
\* holds no object whose key begins with F and the reloaded listing does not
\* show the folder.
C8_FolderDeleted ==
    (task.op = "delete" /\ task.pc = "done" /\ AllOk) =>
        \A i \in 1..Len(task.items) :
            task.items[i].type = "folder" =>
                /\ \A k \in Keys(bucket) : ~StartsWith(k, task.items[i].key)
                /\ \A j \in 1..Len(files) : files[j].key # task.items[i].key

\* C9: every failed storage call of a user action ends in a failure
\* notification.
C9_FailuresNotified ==
    (task.pc = "done" /\ ~AllOk) => notice = "failure"

\* The bucket after the first n items of a task's loop have been carried out
RECURSIVE AfterItems(_, _, _)
AfterItems(b, t, n) ==
    IF n = 0 THEN b
    ELSE IF t.op = "upload"
         THEN PutObject(AfterItems(b, t, n - 1),
                        UploadKey(t.path, t.items[n].name), t.items[n].size)
         ELSE DeleteObject(AfterItems(b, t, n - 1), t.items[n].key)

ItemKey(t, n) ==
    IF t.op = "upload" THEN UploadKey(t.path, t.items[n].name) ELSE t.items[n].key

\* C10: when the request for item i of handleUpload or handleDelete fails, no
\* request follows it (none for a later item, no reload), the error reaches the
\* caller, and the effects of the items before i stay in the bucket.
C10_StopAtFirstError ==
    task.op \in {"upload", "delete"} =>
        \A j \in 1..Len(log) :
            /\ log[j].op # "ListObjectsV2" => (j <= Len(task.items) /\ log[j].key = ItemKey(task, j))
            /\ ~log[j].ok /\ log[j].op # "ListObjectsV2" =>
                  /\ j = Len(log)
                  /\ task.pc = "done"
                  /\ notice = Rejected(task.event)
                  /\ bucket = AfterItems(before, task, j - 1)

\* An upload of two files whose second request failed after the first succeeded.
C10_Witness ==
    /\ task.op = "upload" /\ task.pc = "done"
    /\ Len(task.items) = 2 /\ Len(log) = 2
    /\ log[1].ok /\ ~log[2].ok
    /\ bucket # before

(***************************************************************************)
(* SpecThumb: the thumbnails of the grid view (FileBrowser.loadImageUrl,   *)
(* the effect that calls it, and the <img> elements that load the URLs).   *)
(***************************************************************************)
MaxRequests == 4

\* getSignedUrl: the URL carries the key and the expiry it was signed for
PresignedUrl(key, expiresIn) == [key |-> key, expiresIn |-> expiresIn]

\* S3Service.getFileUrl
getFileUrl(key) == PresignedUrl(key, 3600)

\* mimeType?.startsWith("image/"), over the values getMimeType gives
ImageMimeTypes == {"image/jpeg", "image/png", "image/gif", "image/svg+xml",
                   "image/bmp", "image/webp"}
IsImage(file) == file.type = "file" /\ file.mimeType \in ImageMimeTypes

\* The listings the browser is given: pictures, a text file, a folder
Picture(n) == [key |-> n, name |-> n, size |-> 1, type |-> "file", mimeType |-> "image/png"]
TextFile(n) == [key |-> n, name |-> n, size |-> 1, type |-> "file", mimeType |-> "text/plain"]
FolderItem(n) == [key |-> n \o <<Slash>>, name |-> n, size |-> 0, type |-> "folder"]
ThumbListings ==
    { <<Picture(<<"a">>)>>,
      <<Picture(<<"a">>), Picture(<<"b">>)>>,
      <<FolderItem(<<"a">>), Picture(<<"b">>), TextFile(<<"c">>)>> }

\* The keys of the pictures of a listing
ImageKeys(listing) == {listing[i].key : i \in {j \in 1..Len(listing) : IsImage(listing[j])}}

\* The number of onGetFileUrl calls in flight for a key, and in all
PendingUrl(k) == IF k \in DOMAIN urlCalls THEN urlCalls[k] ELSE 0
RECURSIVE SumCalls(_, _)
SumCalls(f, S) ==
    IF S = {} THEN 0
    ELSE LET k == CHOOSE x \in S : TRUE IN f[k] + SumCalls(f, S \ {k})
InFlight == SumCalls(urlCalls, DOMAIN urlCalls)

\* The keys the thumbnail effect calls loadImageUrl for, which then calls
\* onGetFileUrl: in the grid view, every picture shown that has no URL yet
EffectLoads(listing, mode, urls) ==
    IF mode = "grid" THEN ImageKeys(listing) \ DOMAIN urls ELSE {}

\* The effect has run with the given dependencies, after the calls `done` ended,
\* and the grid has mounted the <img> elements `shown`; `fails` are the requests
\* that failed earlier in the same user action
RunEffect(listing, mode, urls, done, shown, fails) ==
    LET started == EffectLoads(listing, mode, urls)
        keys == DOMAIN urlCalls \cup started
    IN /\ urlCalls' = [k \in keys |->
                          (IF k \in done THEN PendingUrl(k) - 1 ELSE PendingUrl(k))
                          + (IF k \in started THEN 1 ELSE 0)]
       /\ sent' = sent + Cardinality(started) + Cardinality(shown)
       /\ retried' = retried
             \cup {<<"url", k>> : k \in {x \in started : <<"url", x>> \in fails}}
             \cup {<<"img", k>> : k \in {x \in shown : <<"img", x>> \in fails}}

\* The <img> elements of the grid: one for every picture shown that has a URL
Thumbnails(listing, mode, urls) ==
    IF mode = "grid" THEN ImageKeys(listing) \cap DOMAIN urls ELSE {}

thumbRest == <<bucket, isConnected, credentials, currentPath, selectedFile, selectedFiles,
               loading, showRename, fileToRename, renameName, showCreateFolder,
               newFolderName, task, log, before, notice, call, ret, sessionVars, shareVars,
               sortVars, navVars>>

InitThumb ==
    /\ UiInit
    /\ bucket = EmptyBucket
    /\ call = NoCall
    /\ ret = NoRet

\* Index hands the browser a listing (setFiles after a navigation or refresh)
ReceiveFiles ==
    /\ actions < MaxActions /\ sent < MaxRequests
    /\ \E listing \in ThumbListings :
        /\ listing # files
        /\ files' = listing
        /\ LET shown == Thumbnails(listing, viewMode, imageUrls)
                            \ Thumbnails(files, viewMode, imageUrls)
           IN /\ RunEffect(listing, viewMode, imageUrls, {}, shown, {})
              /\ imgLoads' = (imgLoads \cap Thumbnails(listing, viewMode, imageUrls)) \cup shown
    /\ actions' = actions + 1
    /\ failed' = {}
    /\ UNCHANGED <<viewMode, imageUrls>>
    /\ UNCHANGED thumbRest

\* The list and grid buttons: setViewMode
SetViewMode ==
    /\ actions < MaxActions /\ sent < MaxRequests
    /\ \E mode \in {"list", "grid"} :
        /\ mode # viewMode
        /\ viewMode' = mode
        /\ RunEffect(files, mode, imageUrls, {}, Thumbnails(files, mode, imageUrls), {})
        /\ imgLoads' = Thumbnails(files, mode, imageUrls)
    /\ actions' = actions + 1
    /\ failed' = {}
    /\ UNCHANGED <<files, imageUrls>>
    /\ UNCHANGED thumbRest

\* loadImageUrl: onGetFileUrl has resolved, the URL is stored; the effect runs
\* again for the new imageUrls and the grid shows the <img>
UrlResolved ==
    /\ sent < MaxRequests
    /\ \E k \in DOMAIN urlCalls :
        /\ urlCalls[k] > 0
        /\ LET urls == [x \in DOMAIN imageUrls \cup {k} |->
                           IF x = k THEN getFileUrl(k) ELSE imageUrls[x]]
               shown == Thumbnails(files, viewMode, urls) \ Thumbnails(files, viewMode, imageUrls)
           IN /\ imageUrls' = urls
              /\ RunEffect(files, viewMode, urls, {k}, shown, failed)
              /\ imgLoads' = imgLoads \cup shown
    /\ UNCHANGED <<files, viewMode, actions, failed>>
    /\ UNCHANGED thumbRest

\* loadImageUrl: onGetFileUrl has rejected, the error goes to the console
UrlRejected ==
    /\ \E k \in DOMAIN urlCalls :
        /\ urlCalls[k] > 0
        /\ urlCalls' = [urlCalls EXCEPT ![k] = @ - 1]
        /\ failed' = failed \cup {<<"url", k>>}
    /\ UNCHANGED <<files, viewMode, imageUrls, imgLoads, sent, retried, actions>>
    /\ UNCHANGED thumbRest

\* An <img> has loaded its URL
ImgLoaded ==
    /\ \E k \in imgLoads : imgLoads' = imgLoads \ {k}
    /\ UNCHANGED <<files, viewMode, imageUrls, urlCalls, sent, failed, retried, actions>>
    /\ UNCHANGED thumbRest

\* An <img> could not load its URL: onError removes the URL from imageUrls, and
\* the effect runs again for the new imageUrls
ImgError ==
    /\ sent < MaxRequests
    /\ \E k \in imgLoads :
        LET urls == [x \in DOMAIN imageUrls \ {k} |-> imageUrls[x]]
        IN /\ imageUrls' = urls
           /\ imgLoads' = imgLoads \ {k}
           /\ failed' = failed \cup {<<"img", k>>}
           /\ RunEffect(files, viewMode, urls, {}, {}, failed \cup {<<"img", k>>})
    /\ UNCHANGED <<files, viewMode, actions>>
    /\ UNCHANGED thumbRest

NextThumb ==
    \/ ReceiveFiles
    \/ SetViewMode
    \/ UrlResolved
    \/ UrlRejected
    \/ ImgLoaded
    \/ ImgError

SpecThumb == InitThumb /\ [][NextThumb]_vars

\* C11: there is no retry: a request for an object (the call that generates its
\* URL, or the load of the generated URL) that has failed is never issued again
\* for the same object unless a new user event came in between.
C11_NoRetry == retried = {}

\* C12: within one user action at most one storage-service call is in flight:
\* showing the grid view never has two onGetFileUrl calls pending at once.
C12_OneCallInFlight == InFlight <= 1

(***************************************************************************)
(* SpecConn: the connection form, the credentials kept in local storage,   *)
(* the connection attempts (several may be in flight) and the calls the    *)
(* dashboard makes with the credentials held in state.                     *)
(***************************************************************************)
\* JSON.stringify and JSON.parse of the stored item: a text either is the JSON
\* of some credentials or does not parse at all
Stringify(creds) == [json |-> TRUE, value |-> creds]
Unparsable == [json |-> FALSE, value |-> NoCredentials]
Parses(text) == text.json
Parse(text) == text.value

\* What the user may type into the form: an access key only, or all fields
FormInputs ==
    { [FormEmpty EXCEPT !.accessKeyId = "k"], Credentials("k", "b"), Credentials("j", "b") }

\* What local storage may hold when the application is opened first
InitialStorage == { <<>>, <<Stringify(Credentials("k", "b"))>>, <<Unparsable>> }

\* handleSubmit: a required field is missing
MissingField(form) ==
    form.accessKeyId = "" \/ form.secretAccessKey = "" \/ form.bucketName = ""

\* The handlers of the dashboard that send data requests with the credentials
\* held in state (handleUpload, handleDelete, handleRename, handleDownload)
DashboardOps == {"upload", "delete", "rename", "download"}
DataOps == DashboardOps \cup {"list"}

\* A handleConnect call in flight
Connect(creds, from, remember, pc) ==
    [creds |-> creds, from |-> from, remember |-> remember, pc |-> pc]

\* handleSubmit after onConnect, storing whenever the box was checked
StoredAfterConnectAlways(c, ok) ==
    IF c.from = "form" /\ c.remember THEN <<Stringify(c.creds)>> ELSE localStorage

\* handleSubmit after onConnect has settled: the item as it is then
StoredAfterConnect(c, ok) ==
    IF c.from = "form" /\ ok /\ c.remember THEN <<Stringify(c.creds)>> ELSE localStorage

\* handleSubmit after onConnect has settled: the item, the record of a write,
\* and the error shown by the form
SubmitSettled(c, ok) ==
    /\ localStorage' = StoredAfterConnect(c, ok)
    /\ writes' = IF StoredAfterConnect(c, ok) # localStorage
                 THEN writes \cup {[creds |-> c.creds, remember |-> c.remember, ok |-> ok]}
                 ELSE writes
    /\ error' = IF c.from = "form" /\ ~ok THEN "Connection failed" ELSE error

connRest == <<bucket, selectedFile, selectedFiles, showRename, fileToRename, renameName,
              showCreateFolder, newFolderName, task, log, before, notice, call, ret,
              thumbVars, shareVars, sortVars, navVars>>

InitConn ==
    /\ PageInit /\ ThumbInit /\ ShareInit /\ SortInit /\ NavInit
    /\ bucket \in InitialBuckets
    /\ call = NoCall
    /\ ret = NoRet
    /\ formData = FormEmpty
    /\ rememberCredentials = FALSE
    /\ error = ""
    /\ localStorage \in InitialStorage
    /\ connects = {}
    /\ reloads = {}
    /\ tested = {}
    /\ issued = {}
    /\ writes = {}
    /\ bootLog = NotLoaded
    /\ disconnected = FALSE

\* The application is loaded (or loaded again): all component state starts
\* afresh, calls in flight are gone with the old page, and the stored-credentials
\* effect of Index runs
LoadApp ==
    /\ actions < MaxActions
    /\ actions' = actions + 1
    /\ isConnected' = FALSE
    /\ files' = <<>>
    /\ currentPath' = <<>>
    /\ formData' = FormEmpty
    /\ rememberCredentials' = FALSE
    /\ error' = ""
    /\ reloads' = {}
    /\ IF localStorage # <<>> /\ Parses(localStorage[1])
       THEN LET parsed == Parse(localStorage[1])
            IN /\ credentials' = parsed
               /\ connects' = {Connect(parsed, "stored", FALSE, "test")}
               /\ issued' = {<<"connect", parsed>>}
               /\ loading' = TRUE
               /\ UNCHANGED localStorage
       ELSE /\ credentials' = NoCredentials
            /\ connects' = {}
            /\ loading' = FALSE
            /\ localStorage' = <<>>
            /\ issued' = {}
    /\ bootLog' = [loaded |-> TRUE, stored |-> localStorage,
                   attempts |-> IF localStorage # <<>> /\ Parses(localStorage[1])
                                THEN <<Parse(localStorage[1])>> ELSE <<>>,
                   after |-> localStorage']
    /\ tested' = {}
    /\ UNCHANGED <<writes, disconnected>>
    /\ UNCHANGED connRest

\* S3ConnectionForm.handleInputChange
TypeForm ==
    /\ bootLog.loaded /\ ~Dashboard
    /\ actions < MaxActions
    /\ actions' = actions + 1
    /\ \E form \in FormInputs : form # formData /\ formData' = form
    /\ error' = ""
    /\ UNCHANGED <<isConnected, credentials, files, currentPath, loading, rememberCredentials,
                   localStorage, connects, reloads, tested, issued, writes, bootLog,
                   disconnected>>
    /\ UNCHANGED connRest

\* The "Remember credentials" checkbox
ToggleRemember ==
    /\ bootLog.loaded /\ ~Dashboard
    /\ actions < MaxActions
    /\ actions' = actions + 1
    /\ rememberCredentials' = ~rememberCredentials
    /\ UNCHANGED <<isConnected, credentials, files, currentPath, loading, formData, error,
                   localStorage, connects, reloads, tested, issued, writes, bootLog,
                   disconnected>>
    /\ UNCHANGED connRest

\* S3ConnectionForm.handleSubmit up to the call of onConnect (the submit button
\* is disabled while loading); handleConnect up to the testConnection request
SubmitForm ==
    /\ bootLog.loaded /\ ~Dashboard /\ ~loading
    /\ actions < MaxActions
    /\ actions' = actions + 1
    /\ IF MissingField(formData)
       THEN /\ error' = "Please fill in all required fields"
            /\ UNCHANGED <<connects, issued, loading, disconnected>>
       ELSE /\ error' = ""
            /\ connects' = connects \cup {Connect(formData, "form", rememberCredentials, "test")}
            /\ issued' = issued \cup {<<"submitConnect", formData>>}
            /\ loading' = TRUE
            /\ disconnected' = FALSE
    /\ UNCHANGED <<isConnected, credentials, files, currentPath, formData, rememberCredentials,
                   localStorage, reloads, tested, writes, bootLog>>
    /\ UNCHANGED connRest

\* handleConnect: testConnection has completed; on success the credentials are
\* set and listFiles("") is requested, on failure the caller is told
ConnectTested ==
    /\ \E c \in connects, ok \in BOOLEAN :
        /\ c.pc = "test"
        /\ IF ok
           THEN /\ tested' = tested \cup {c.creds}
                /\ credentials' = c.creds
                /\ isConnected' = TRUE
                /\ issued' = issued \cup {<<"list", c.creds>>}
                /\ connects' = (connects \ {c}) \cup {[c EXCEPT !.pc = "list"]}
                /\ UNCHANGED <<loading, localStorage, writes, error>>
           ELSE /\ loading' = FALSE
                /\ connects' = connects \ {c}
                /\ SubmitSettled(c, FALSE)
                /\ UNCHANGED <<tested, credentials, isConnected, issued>>
    /\ UNCHANGED <<files, currentPath, formData, rememberCredentials, reloads, bootLog,
                   disconnected, actions>>
    /\ UNCHANGED connRest

\* handleConnect: listFiles("") has completed; then handleSubmit goes on
ConnectListed ==
    /\ \E c \in connects, ok \in BOOLEAN :
        /\ c.pc = "list"
        /\ IF ok
           THEN files' = listFiles(bucket, <<>>) /\ currentPath' = <<>>
           ELSE UNCHANGED <<files, currentPath>>
        /\ loading' = FALSE
        /\ connects' = connects \ {c}
        /\ SubmitSettled(c, ok)
    /\ UNCHANGED <<isConnected, credentials, formData, rememberCredentials, reloads, tested,
                   issued, bootLog, disconnected, actions>>
    /\ UNCHANGED connRest

\* Index.handleDisconnect
DisconnectSession ==
    /\ Dashboard
    /\ actions < MaxActions
    /\ actions' = actions + 1
    /\ isConnected' = FALSE
    /\ credentials' = NoCredentials
    /\ files' = <<>>
    /\ currentPath' = <<>>
    /\ localStorage' = <<>>
    /\ disconnected' = TRUE
    /\ formData' = FormEmpty
    /\ rememberCredentials' = FALSE
    /\ error' = ""
    /\ UNCHANGED <<loading, connects, reloads, tested, issued, writes, bootLog>>
    /\ UNCHANGED connRest

\* The breadcrumb's root button: handleNavigate(""), loadFiles up to its request
NavigateRoot ==
    /\ Dashboard /\ reloads = {}
    /\ actions < MaxActions
    /\ actions' = actions + 1
    /\ loading' = TRUE
    /\ issued' = issued \cup {<<"list", credentials>>}
    /\ reloads' = {credentials}
    /\ UNCHANGED <<isConnected, credentials, files, currentPath, formData, rememberCredentials,
                   error, localStorage, connects, tested, writes, bootLog, disconnected>>
    /\ UNCHANGED connRest

\* loadFiles: its list request has completed
RootListed ==
    /\ \E c \in reloads, ok \in BOOLEAN :
        /\ reloads' = reloads \ {c}
        /\ IF ok
           THEN files' = listFiles(bucket, <<>>) /\ currentPath' = <<>>
           ELSE UNCHANGED <<files, currentPath>>
    /\ loading' = FALSE
    /\ UNCHANGED <<isConnected, credentials, formData, rememberCredentials, error, localStorage,
                   connects, tested, issued, writes, bootLog, disconnected, actions>>
    /\ UNCHANGED connRest

\* handleUpload, handleDelete, handleRename, handleDownload: the service object
\* is made from the credentials held in state and the first request is sent
DashboardRequest ==
    /\ Dashboard
    /\ actions < MaxActions
    /\ actions' = actions + 1
    /\ \E op \in DashboardOps : issued' = issued \cup {<<op, credentials>>}
    /\ UNCHANGED <<isConnected, credentials, files, currentPath, loading, formData,
                   rememberCredentials, error, localStorage, connects, reloads, tested,
                   writes, bootLog, disconnected>>
    /\ UNCHANGED connRest

NextConn ==
    \/ LoadApp
    \/ TypeForm
    \/ ToggleRemember
    \/ SubmitForm
    \/ ConnectTested
    \/ ConnectListed
    \/ DisconnectSession
    \/ NavigateRoot
    \/ RootListed
    \/ DashboardRequest

SpecConn == InitConn /\ [][NextConn]_vars

\* C13: whenever the dashboard is shown, testConnection has succeeded for the
\* credentials held in state, and every list, upload, delete, rename or download
\* request was issued with credentials testConnection had succeeded for.
C13_AuthenticatedBeforeDashboard ==
    /\ Dashboard => credentials \in tested
    /\ \A r \in issued : r[1] \in DataOps => r[2] \in tested

\* C13 witness: a session restored from local storage shows the dashboard and a
\* dashboard handler has sent a request with the credentials held
C13_Witness ==
    /\ Dashboard
    /\ bootLog.attempts = <<credentials>>
    /\ \E op \in DashboardOps : <<op, credentials>> \in issued

\* C14: the item is written only by a submit whose remember box was checked and
\* whose connection attempt has succeeded, with the credentials of that attempt;
\* a submit with a missing field never calls connect and never writes.
C14_StoredOnlyAfterSuccess ==
    /\ \A w \in writes : w.remember /\ w.ok /\ ~MissingField(w.creds)
    /\ \A r \in issued : r[1] = "submitConnect" => ~MissingField(r[2])
    /\ localStorage \in {<<>>} \cup InitialStorage \cup {<<Stringify(w.creds)>> : w \in writes}

\* C14 witness: a submit with the box checked has connected and its credentials
\* are in local storage, which held nothing before
C14_Witness ==
    /\ bootLog.loaded /\ bootLog.stored = <<>>
    /\ \E w \in writes : localStorage = <<Stringify(w.creds)>> /\ w.creds = credentials
    /\ isConnected /\ credentials \in tested

\* C15: a load that finds an item that parses starts exactly one connection
\* attempt, with the parsed credentials; a load that finds an item that does not
\* parse removes it and starts none; a load that finds no item starts none; and
\* once handleDisconnect has run, local storage holds no credentials until the
\* user submits the form again.
C15_SessionPersistence ==
    /\ bootLog.loaded =>
          IF bootLog.stored # <<>> /\ Parses(bootLog.stored[1])
          THEN bootLog.attempts = <<Parse(bootLog.stored[1])>>
          ELSE bootLog.attempts = <<>> /\ bootLog.after = <<>>
    /\ disconnected => localStorage = <<>>

(***************************************************************************)
(* SpecPage: listFiles applied to buckets that hold more keys under a      *)
(* prefix than one list response returns.                                  *)
(***************************************************************************)
PageKeys ==
    { <<"a">>, <<"b">>, <<"a", ".">>, <<"a", "/", "a">>, <<"b", "/">>, <<"b", "/", "a">>,
      <<"b", "/", "b">> }
PagePrefixes == { <<>>, <<"a", "/">>, <<"b", "/">> }
PageBuckets == UNION {[ks -> ListBodies] : ks \in SUBSET PageKeys}

InitPage ==
    /\ UiInit
    /\ bucket \in PageBuckets
    /\ \E P \in PagePrefixes : call = [NoCall EXCEPT !.op = "listFiles", !.prefix = P]
    /\ ret = NoRet

SpecPage == InitPage /\ [][NextList]_vars

\* The entries of a listing that satisfy a condition
Entries(listing, type, name) ==
    {i \in 1..Len(listing) : listing[i].type = type /\ listing[i].name = name}

\* C16: listFiles(P) returns one file entry for every key P + n with n non-empty
\* and without "/", and one folder entry for every non-empty first segment s of
\* the keys P + s + "/" + rest: no immediate child of P is missing.
C16_ListingComplete ==
    (call.op = "listFiles" /\ ret.done) =>
        \A k \in Keys(bucket) :
            (StartsWith(k, call.prefix) /\ k # call.prefix) =>
                LET rest == Slice(k, Len(call.prefix))
                IN IF ~Includes(rest, Slash)
                   THEN Cardinality(Entries(ret.value, "file", rest)) = 1
                   ELSE IndexOf(rest, Slash) > 0 =>
                        Cardinality(Entries(ret.value, "folder",
                                            SubSeq(rest, 1, IndexOf(rest, Slash)))) = 1

(***************************************************************************)
(* SpecZip: Index.handleDownloadFolder and S3Service.downloadFolderContents *)
(* applied to bounded buckets and folders; one of the requests may fail.   *)
(***************************************************************************)
\* The objects downloadFolderContents downloads: those of the list response
\* whose key does not end with "/"
Downloadable(contents) ==
    SelectSeq(contents, LAMBDA object : object.Key # <<>> /\ ~EndsWith(object.Key, Slash))

\* downloadFolderContents: the list request is request 1 and the GetObject of the
\* i-th downloaded object is request i + 1; `fails` is the request that fails
\* (0 when none does), and a failure is thrown on as an error
downloadFolderContents(b, folderKey, fails) ==
    LET response == ListObjectsV2(b, folderKey, FALSE)
        objects == Downloadable(response.Contents)
        sentGets == IF fails = 0 \/ fails > Len(objects) + 1 THEN Len(objects)
                    ELSE fails - 1
    IN [error |-> fails \in 1..(Len(objects) + 1),
        requests |-> IF fails = 1 THEN 1 ELSE 1 + sentGets,
        files |-> IF fails \in 1..(Len(objects) + 1) THEN <<>>
                  ELSE [i \in 1..Len(objects) |->
                           [path |-> ReplaceFirstStr(objects[i].Key, folderKey),
                            content |-> objects[i].Size]]]

\* JSZip: zip.file(path, content) for every downloaded file, in order
RECURSIVE ZipFiles(_)
ZipFiles(contents) ==
    IF Len(contents) = 0 THEN [p \in {} |-> 0]
    ELSE LET front == ZipFiles(SubSeq(contents, 1, Len(contents) - 1))
             last == contents[Len(contents)]
         IN [p \in DOMAIN front \cup {last.path} |->
                IF p = last.path THEN last.content ELSE front[p]]

ZipSuffix == <<".", "z", "i", "p">>

\* handleDownloadFolder: the archives offered for download (none or one), and
\* whether the handler threw
handleDownloadFolder(b, folder, fails) ==
    LET folderContents == downloadFolderContents(b, folder.key, fails)
    IN IF folderContents.error \/ Len(folderContents.files) = 0
       THEN [error |-> TRUE, failed |-> folderContents.error,
             requests |-> folderContents.requests, archives |-> <<>>]
       ELSE [error |-> FALSE, failed |-> FALSE, requests |-> folderContents.requests,
             archives |-> <<[name |-> folder.name \o ZipSuffix,
                             entries |-> ZipFiles(folderContents.files)]>>]

ZipKeys ==
    { <<"a">>, <<"b", "/">>, <<"b", "/", "a">>, <<"b", "/", "b">>, <<"b", "/", ".">>,
      <<"b", "/", "a", "/">>, <<"b", "/", "a", "/", "a">>, <<"b", "/", "b", "/", "a">> }
ZipFolders == { FolderItem(<<"a">>), FolderItem(<<"b">>),
                [FolderItem(<<"a">>) EXCEPT !.key = <<"b", "/", "a", "/">>] }
ZipBuckets == UNION {[ks -> ListBodies] : ks \in SUBSET ZipKeys}

InitZip ==
    /\ UiInit
    /\ bucket \in ZipBuckets
    /\ \E folder \in ZipFolders : call = [NoCall EXCEPT !.op = "downloadFolder", !.file = folder]
    /\ ret = NoRet

CallDownloadFolder ==
    /\ call.op = "downloadFolder"
    /\ ~ret.done
    /\ \E fails \in 0..(MaxKeys + 1) :
          ret' = [done |-> TRUE, value |-> handleDownloadFolder(bucket, call.file, fails)]
    /\ UNCHANGED <<bucket, call>>
    /\ UNCHANGED uiVars

NextZip == CallDownloadFolder

SpecZip == InitZip /\ [][NextZip]_vars

\* The objects of folder F that a download of F is to hold
FolderObjects(b, F) == {k \in Keys(b) : StartsWith(k, F) /\ ~EndsWith(k, Slash)}

\* C17: when no request fails, handleDownloadFolder on a folder with key F gives
\* one archive named folder.name + ".zip" with exactly one entry for every object
\* whose key starts with F and does not end with "/", at the path key-minus-F and
\* with the object's content; when there is no such object it throws and gives
\* no archive.
C17_FolderZip ==
    (call.op = "downloadFolder" /\ ret.done /\ ~ret.value.failed) =>
        LET F == call.file.key
            wanted == FolderObjects(bucket, F)
        IN IF wanted = {}
           THEN ret.value.error /\ ret.value.archives = <<>>
           ELSE /\ ~ret.value.error
                /\ Len(ret.value.archives) = 1
                /\ ret.value.archives[1].name = call.file.name \o ZipSuffix
                /\ DOMAIN ret.value.archives[1].entries = {Slice(k, Len(F)) : k \in wanted}
                /\ \A k \in wanted : ret.value.archives[1].entries[Slice(k, Len(F))] = bucket[k]

\* C18: once handleUpload has resolved and "Upload Successful" is reported for
\* files f1..fn uploaded into path P, the bucket holds every fi at key P + fi.name,
\* and the listing shown was fetched after the uploads: it is the listing of P
\* in the bucket as it is now and has an entry for every uploaded file.
C18_UploadThenRefresh ==
    (task.op = "upload" /\ task.pc = "done" /\ notice = "success") =>
        /\ \A n \in 1..Len(task.items) :
              /\ UploadKey(task.path, task.items[n].name) \in Keys(bucket)
              /\ bucket[UploadKey(task.path, task.items[n].name)] = task.items[n].size
        /\ currentPath = task.path
        /\ files = listFiles(bucket, task.path)
        /\ \A n \in 1..Len(task.items) :
              \E i \in 1..Len(files) : files[i].key = UploadKey(task.path, task.items[n].name)

(***************************************************************************)
(* SpecShare: the share dialog of the file browser.                        *)
(***************************************************************************)
\* The choices of the "Expires In" select, in seconds
ShareExpiries == {3600, 21600, 86400, 604800}

\* S3Service.generatePresignedUrl
generatePresignedUrl(key, expiresIn) == PresignedUrl(key, expiresIn)

\* The buckets whose root the browser shows
ShareBuckets == { [k \in {<<"a">>, <<"b">>} |-> 1], [k \in {<<"a">>, <<"b", "/", "a">>} |-> 1] }

shareRest == <<bucket, isConnected, credentials, currentPath, files, selectedFile,
               selectedFiles, loading, showRename, fileToRename, renameName,
               showCreateFolder, newFolderName, task, log, before, call, ret,
               thumbVars, sessionVars, sortVars, navVars>>

\* The dashboard, connected, showing the root of the bucket
InitShare ==
    /\ ThumbInit /\ SessionInit /\ ShareInit /\ SortInit /\ NavInit
    /\ bucket \in ShareBuckets
    /\ isConnected = TRUE
    /\ credentials = Credentials("k", "b")
    /\ currentPath = <<>>
    /\ files = listFiles(bucket, <<>>)
    /\ selectedFile = NoFile
    /\ selectedFiles = <<>>
    /\ loading = FALSE
    /\ showRename = FALSE
    /\ fileToRename = NoFile
    /\ renameName = <<>>
    /\ showCreateFolder = FALSE
    /\ newFolderName = <<>>
    /\ task = Idle
    /\ log = <<>>
    /\ before = EmptyBucket
    /\ notice = "none"
    /\ actions = 0
    /\ call = NoCall
    /\ ret = NoRet

\* The Share item of a file's menu
OpenShare ==
    /\ Dashboard /\ NoDialog /\ ~showShare
    /\ actions < MaxActions
    /\ actions' = actions + 1
    /\ \E i \in 1..Len(files) :
        /\ files[i].type = "file"
        /\ fileToShare' = files[i]
    /\ showShare' = TRUE
    /\ UNCHANGED <<shareExpiresIn, shareUrl, shareCalls, notice>>
    /\ UNCHANGED shareRest

\* The "Expires In" select: setShareExpiresIn
SelectExpiry ==
    /\ showShare
    /\ actions < MaxActions
    /\ actions' = actions + 1
    /\ \E seconds \in ShareExpiries : seconds # shareExpiresIn /\ shareExpiresIn' = seconds
    /\ UNCHANGED <<showShare, fileToShare, shareUrl, shareCalls, notice>>
    /\ UNCHANGED shareRest

\* The Close button, or the dialog dismissed
CloseShare ==
    /\ showShare
    /\ actions < MaxActions
    /\ actions' = actions + 1
    /\ showShare' = FALSE
    /\ UNCHANGED <<fileToShare, shareExpiresIn, shareUrl, shareCalls, notice>>
    /\ UNCHANGED shareRest

\* The "Generate Link" button (shown while shareUrl is ""): handleShare up to
\* the call of onShare
GenerateLink ==
    /\ showShare /\ shareUrl = <<>> /\ fileToShare # NoFile
    /\ actions < MaxActions
    /\ actions' = actions + 1
    /\ shareCalls' = shareCalls \cup {[key |-> fileToShare.key, expiresIn |-> shareExpiresIn]}
    /\ notice' = "none"
    /\ UNCHANGED <<showShare, fileToShare, shareExpiresIn, shareUrl>>
    /\ UNCHANGED shareRest

\* handleShare: onShare has resolved, the URL is shown
ShareResolved ==
    /\ \E c \in shareCalls :
        /\ shareCalls' = shareCalls \ {c}
        /\ shareUrl' = <<generatePresignedUrl(c.key, c.expiresIn)>>
    /\ notice' = "success"
    /\ UNCHANGED <<showShare, fileToShare, shareExpiresIn, actions>>
    /\ UNCHANGED shareRest

\* handleShare: onShare has rejected, "Share Failed"
ShareRejected ==
    /\ \E c \in shareCalls : shareCalls' = shareCalls \ {c}
    /\ notice' = "failure"
    /\ UNCHANGED <<showShare, fileToShare, shareExpiresIn, shareUrl, actions>>
    /\ UNCHANGED shareRest

NextShare ==
    \/ OpenShare
    \/ SelectExpiry
    \/ CloseShare
    \/ GenerateLink
    \/ ShareResolved
    \/ ShareRejected

SpecShare == InitShare /\ [][NextShare]_vars

\* C19: whenever the share dialog displays a share URL, the URL was generated
\* for the file named in the dialog and with the expiry selected in the dialog.
C19_ShareUrlMatchesDialog ==
    (showShare /\ shareUrl # <<>>) =>
        shareUrl[1] = generatePresignedUrl(fileToShare.key, shareExpiresIn)

(***************************************************************************)
(* SpecSort: the list the browser displays (filteredAndSortedFiles) under  *)
(* the search, filter and sort controls of the sidebar.                    *)
(***************************************************************************)
\* String.prototype.toLowerCase
LowerChar(c) ==
    CASE c = "A" -> "a" [] c = "B" -> "b" [] c = "C" -> "c" [] c = "D" -> "d" [] c = "E" -> "e" [] c = "F" -> "f"
      [] c = "G" -> "g" [] c = "H" -> "h" [] c = "I" -> "i" [] c = "J" -> "j" [] c = "K" -> "k" [] c = "L" -> "l"
      [] c = "M" -> "m" [] c = "N" -> "n" [] c = "O" -> "o" [] c = "P" -> "p" [] c = "Q" -> "q" [] c = "R" -> "r"
      [] c = "S" -> "s" [] c = "T" -> "t" [] c = "U" -> "u" [] c = "V" -> "v" [] c = "W" -> "w" [] c = "X" -> "x"
      [] c = "Y" -> "y" [] c = "Z" -> "z"
      [] OTHER -> c
ToLowerCase(s) == [i \in 1..Len(s) |-> LowerChar(s[i])]

\* String.prototype.includes(p), for a string p
IncludesStr(s, p) == \E i \in 0..(Len(s) - Len(p)) : SubSeq(s, i + 1, i + Len(p)) = p

\* The search filter
MatchesSearch(file, term) == IncludesStr(ToLowerCase(file.name), ToLowerCase(term))

\* mimeType.startsWith("video/") and ("audio/"), over the values getMimeType gives
VideoMimeTypes == {"video/mp4", "video/avi", "video/quicktime", "video/x-ms-wmv",
                   "video/x-flv", "video/webm"}
AudioMimeTypes == {"audio/mpeg", "audio/wav", "audio/ogg", "audio/mp4", "audio/flac"}

\* The extension lists of the type filter
DocumentExtensions ==
    { <<"p", "d", "f">>, <<"d", "o", "c">>, <<"d", "o", "c", "x">>,
      <<"x", "l", "s">>, <<"x", "l", "s", "x">>, <<"p", "p", "t">>,
      <<"p", "p", "t", "x">> }
CodeExtensions ==
    { <<"j", "s">>, <<"t", "s">>, <<"h", "t", "m", "l">>,
      <<"c", "s", "s">>, <<"j", "s", "o", "n">>, <<"x", "m", "l">>,
      <<"t", "x", "t">>, <<"m", "d">>, <<"p", "y">>,
      <<"j", "a", "v", "a">>, <<"c", "p", "p">>, <<"c">> }
ArchiveExtensions ==
    { <<"z", "i", "p">>, <<"r", "a", "r">>, <<"7", "z">>,
      <<"t", "a", "r">>, <<"g", "z">> }
\* The code extensions as the "others" filter lists them
OtherCodeExtensions ==
    { <<"j", "s">>, <<"t", "s">>, <<"h", "t", "m", "l">>,
      <<"c", "s", "s">>, <<"j", "s", "o", "n">>, <<"x", "m", "l">>,
      <<"t", "x", "t">>, <<"m", "d">> }

\* The type filter, for a filterType other than "all"
MatchesType(file, type) ==
    IF file.type = "folder" THEN FALSE
    ELSE LET extension == ToLowerCase(file.extension)
             mimeType == file.mimeType
         IN CASE type = "images" -> mimeType \in ImageMimeTypes
              [] type = "videos" -> mimeType \in VideoMimeTypes
              [] type = "audio" -> mimeType \in AudioMimeTypes
              [] type = "documents" -> extension \in DocumentExtensions
              [] type = "code" -> extension \in CodeExtensions
              [] type = "archives" -> extension \in ArchiveExtensions
              [] type = "others" ->
                    ~(\/ mimeType \in ImageMimeTypes
                      \/ mimeType \in VideoMimeTypes
                      \/ mimeType \in AudioMimeTypes
                      \/ extension \in DocumentExtensions
                      \/ extension \in OtherCodeExtensions
                      \/ extension \in ArchiveExtensions)
              [] OTHER -> TRUE

\* The entries left by the search filter and the type filter
Filtered(fs, term, type) ==
    LET searched == IF term # <<>> THEN SelectSeq(fs, LAMBDA f : MatchesSearch(f, term)) ELSE fs
    IN IF type # "all" THEN SelectSeq(searched, LAMBDA f : MatchesType(f, type)) ELSE searched

\* The comparator with the order reversed for folders against files as well
SortCompareAllReversed(a, b, by, order) ==
    LET comparison ==
            IF a.type # b.type THEN (IF a.type = "folder" THEN -1 ELSE 1)
            ELSE CASE by = "name" -> LocaleCompare(a.name, b.name)
                   [] by = "size" -> a.size - b.size
                   [] by = "lastModified" -> a.lastModified - b.lastModified
    IN IF order = "desc" THEN -comparison ELSE comparison

\* The comparator of the displayed list: folders first, then by the sort key,
\* reversed for "desc"
SortCompare(a, b, by, order) ==
    IF a.type # b.type THEN (IF a.type = "folder" THEN -1 ELSE 1)
    ELSE LET comparison ==
                 CASE by = "name" -> LocaleCompare(a.name, b.name)
                   [] by = "size" -> a.size - b.size
                   [] by = "lastModified" -> a.lastModified - b.lastModified
         IN IF order = "desc" THEN -comparison ELSE comparison

\* Array.prototype.sort with SortCompare (a stable sort)
RECURSIVE InsertSorted(_, _, _, _)
InsertSorted(sorted, e, by, order) ==
    IF Len(sorted) = 0 THEN <<e>>
    ELSE IF SortCompare(e, sorted[1], by, order) < 0 THEN <<e>> \o sorted
    ELSE <<sorted[1]>> \o InsertSorted(Tail(sorted), e, by, order)

RECURSIVE SortFiles(_, _, _)
SortFiles(fs, by, order) ==
    IF Len(fs) = 0 THEN <<>>
    ELSE InsertSorted(SortFiles(SubSeq(fs, 1, Len(fs) - 1), by, order), fs[Len(fs)], by, order)

\* FileBrowser.filteredAndSortedFiles
filteredAndSortedFiles(fs, term, type, by, order) ==
    SortFiles(Filtered(fs, term, type), by, order)

\* The files array after filteredAndSortedFiles has run: when neither filter
\* applies, sort() has sorted the array of the files state itself
FilesAfterSort(fs, term, type, by, order) ==
    IF term = <<>> /\ type = "all" THEN SortFiles(fs, by, order) ELSE fs

\* The list the browser displays
Shown == filteredAndSortedFiles(files, searchTerm, filterType, sortBy, sortOrder)

\* The entries of the listings sorted: as listFiles gives them, with the time of
\* the last modification as a number
SortFolder(n, modified) ==
    [key |-> n \o <<Slash>>, name |-> n, size |-> 0, type |-> "folder",
     lastModified |-> modified, extension |-> <<>>, mimeType |-> ""]
SortFile(n, ext, bytes, modified) ==
    [key |-> n, name |-> n, size |-> bytes, type |-> "file", lastModified |-> modified,
     extension |-> ext, mimeType |-> "application/octet-stream"]
SortEntries ==
    << SortFolder(<<"a">>, 3), SortFolder(<<"b">>, 4), SortFile(<<"a", ".", "c">>, <<"c">>, 2, 1),
       SortFile(<<"b">>, <<"b">>, 1, 2), SortFile(<<"b", ".", "c">>, <<"c">>, 2, 2) >>
\* The listings: the entries picked from SortEntries, in the order of listFiles
SortListings ==
    { SelectSeq(SortEntries, LAMBDA f : f.key \in ks) :
        ks \in SUBSET {SortEntries[i].key : i \in 1..Len(SortEntries)} }

SearchTerms == { <<>>, <<"a">>, <<"C">> }
FilterTypes == {"all", "images", "videos", "audio", "documents", "code", "archives", "others"}

sortRest == <<bucket, isConnected, credentials, currentPath, selectedFile, selectedFiles,
              loading, showRename, fileToRename, renameName, showCreateFolder,
              newFolderName, task, log, before, notice, call, ret, thumbVars, sessionVars,
              shareVars, navVars>>

\* The dashboard, connected, showing a listing under the default controls
InitSort ==
    /\ ThumbInit /\ SessionInit /\ ShareInit /\ SortInit /\ NavInit
    /\ bucket = EmptyBucket
    /\ isConnected = TRUE
    /\ credentials = Credentials("k", "b")
    /\ currentPath = <<>>
    /\ files \in SortListings
    /\ selectedFile = NoFile
    /\ selectedFiles = <<>>
    /\ loading = FALSE
    /\ showRename = FALSE
    /\ fileToRename = NoFile
    /\ renameName = <<>>
    /\ showCreateFolder = FALSE
    /\ newFolderName = <<>>
    /\ task = Idle
    /\ log = <<>>
    /\ before = EmptyBucket
    /\ notice = "none"
    /\ actions = 0
    /\ call = NoCall
    /\ ret = NoRet

\* The search box of the sidebar: setSearchTerm, then the list is computed again
SetSearchTerm ==
    /\ actions < MaxActions
    /\ actions' = actions + 1
    /\ \E term \in SearchTerms :
        /\ term # searchTerm
        /\ searchTerm' = term
        /\ files' = FilesAfterSort(files, term, filterType, sortBy, sortOrder)
    /\ UNCHANGED <<filterType, sortBy, sortOrder>>
    /\ UNCHANGED sortRest

\* The file type buttons of the sidebar: setFilterType
SetFilterType ==
    /\ actions < MaxActions
    /\ actions' = actions + 1
    /\ \E type \in FilterTypes :
        /\ type # filterType
        /\ filterType' = type
        /\ files' = FilesAfterSort(files, searchTerm, type, sortBy, sortOrder)
    /\ UNCHANGED <<searchTerm, sortBy, sortOrder>>
    /\ UNCHANGED sortRest

\* The "Sort by" select of the sidebar: setSortBy
SetSortBy ==
    /\ actions < MaxActions
    /\ actions' = actions + 1
    /\ \E by \in {"name", "size", "lastModified"} :
        /\ by # sortBy
        /\ sortBy' = by
        /\ files' = FilesAfterSort(files, searchTerm, filterType, by, sortOrder)
    /\ UNCHANGED <<searchTerm, filterType, sortOrder>>
    /\ UNCHANGED sortRest

\* The sort order button of the sidebar: setSortOrder
ToggleSortOrder ==
    /\ actions < MaxActions
    /\ actions' = actions + 1
    /\ sortOrder' = (IF sortOrder = "asc" THEN "desc" ELSE "asc")
    /\ files' = FilesAfterSort(files, searchTerm, filterType, sortBy, sortOrder')
    /\ UNCHANGED <<searchTerm, filterType, sortBy>>
    /\ UNCHANGED sortRest

NextSort ==
    \/ SetSearchTerm
    \/ SetFilterType
    \/ SetSortBy
    \/ ToggleSortOrder

SpecSort == InitSort /\ [][NextSort]_vars

\* The sort key of a is at most that of b
KeyAtMost(a, b, by) ==
    CASE by = "name" -> LocaleCompare(a.name, b.name) <= 0
      [] by = "size" -> a.size <= b.size
      [] by = "lastModified" -> a.lastModified <= b.lastModified

\* C20: for every sortBy and sortOrder the displayed list is a permutation of the
\* searched-and-filtered entries, every folder precedes every file, and within
\* the folders and within the files the sort key never decreases for "asc" and
\* never increases for "desc".
C20_DisplayedSorted ==
    LET base == Filtered(files, searchTerm, filterType)
    IN /\ Len(Shown) = Len(base)
       /\ \A e \in {base[i] : i \in 1..Len(base)} :
             Cardinality({i \in 1..Len(Shown) : Shown[i] = e}) = 1
       /\ \A i, j \in 1..Len(Shown) :
             i < j =>
                /\ ~(Shown[i].type = "file" /\ Shown[j].type = "folder")
                /\ Shown[i].type = Shown[j].type =>
                      IF sortOrder = "asc"
                      THEN KeyAtMost(Shown[i], Shown[j], sortBy)
                      ELSE KeyAtMost(Shown[j], Shown[i], sortBy)

\* C20 witness: two folders and three files, two of them of equal size, are
\* displayed by size in descending order
C20_Witness ==
    /\ sortBy = "size" /\ sortOrder = "desc"
    /\ Len(Shown) = 5
    /\ Shown[1].type = "folder" /\ Shown[3].type = "file"
    /\ Shown[3].size = Shown[4].size /\ Shown[5].size < Shown[4].size

(***************************************************************************)
(* SpecType: the type filter applied to listings whose files carry the     *)
(* extension and the MIME type listFiles derives from their names.         *)
(***************************************************************************)
\* S3Service.getMimeType: its table
mimeTypes ==
    \* Images
    (<<"j", "p", "g">> :> "image/jpeg") @@
    (<<"j", "p", "e", "g">> :> "image/jpeg") @@
    (<<"p", "n", "g">> :> "image/png") @@
    (<<"g", "i", "f">> :> "image/gif") @@
    (<<"s", "v", "g">> :> "image/svg+xml") @@
    (<<"b", "m", "p">> :> "image/bmp") @@
    (<<"w", "e", "b", "p">> :> "image/webp") @@
    \* Videos
    (<<"m", "p", "4">> :> "video/mp4") @@
    (<<"a", "v", "i">> :> "video/avi") @@
    (<<"m", "o", "v">> :> "video/quicktime") @@
    (<<"w", "m", "v">> :> "video/x-ms-wmv") @@
    (<<"f", "l", "v">> :> "video/x-flv") @@
    (<<"w", "e", "b", "m">> :> "video/webm") @@
    \* Audio
    (<<"m", "p", "3">> :> "audio/mpeg") @@
    (<<"w", "a", "v">> :> "audio/wav") @@
    (<<"o", "g", "g">> :> "audio/ogg") @@
    (<<"m", "4", "a">> :> "audio/mp4") @@
    (<<"f", "l", "a", "c">> :> "audio/flac") @@
    \* Documents
    (<<"p", "d", "f">> :> "application/pdf") @@
    (<<"d", "o", "c">> :> "application/msword") @@
    (<<"d", "o", "c", "x">> :> "application/vnd.openxmlformats-officedocument.wordprocessingml.document") @@
    (<<"x", "l", "s">> :> "application/vnd.ms-excel") @@
    (<<"x", "l", "s", "x">> :> "application/vnd.openxmlformats-officedocument.spreadsheetml.sheet") @@
    (<<"p", "p", "t">> :> "application/vnd.ms-powerpoint") @@
    (<<"p", "p", "t", "x">> :> "application/vnd.openxmlformats-officedocument.presentationml.presentation") @@
    \* Code
    (<<"j", "s">> :> "text/javascript") @@
    (<<"t", "s">> :> "text/typescript") @@
    (<<"h", "t", "m", "l">> :> "text/html") @@
    (<<"c", "s", "s">> :> "text/css") @@
    (<<"j", "s", "o", "n">> :> "application/json") @@
    (<<"x", "m", "l">> :> "application/xml") @@
    (<<"t", "x", "t">> :> "text/plain") @@
    (<<"m", "d">> :> "text/markdown") @@
    \* Archives
    (<<"z", "i", "p">> :> "application/zip") @@
    (<<"r", "a", "r">> :> "application/x-rar-compressed") @@
    (<<"7", "z">> :> "application/x-7z-compressed") @@
    (<<"t", "a", "r">> :> "application/x-tar") @@
    (<<"g", "z">> :> "application/gzip")

\* getMimeType answering its default for every extension
getMimeTypeDefault(extension) == "application/octet-stream"

\* S3Service.getMimeType
getMimeType(extension) ==
    IF extension \in DOMAIN mimeTypes THEN mimeTypes[extension]
    ELSE "application/octet-stream"

\* fileName.split(".").pop()?.toLowerCase()
ExtensionOf(fileName) ==
    LET parts == Split(fileName, Dot)
    IN ToLowerCase(parts[Len(parts)])

\* The file entry listFiles pushes for an object, with its extension and MIME type
TypedFile(prefix, fileName, bytes, modified) ==
    [key |-> prefix \o fileName, name |-> fileName, size |-> bytes, type |-> "file",
     lastModified |-> modified, extension |-> ExtensionOf(fileName),
     mimeType |-> getMimeType(ExtensionOf(fileName))]

\* The README's File Type Support table, as written
FileTypeSupport ==
    ("images" :>
        { <<"J", "P", "G">>, <<"P", "N", "G">>, <<"G", "I", "F">>,
          <<"W", "e", "b", "P">>, <<"S", "V", "G">> }) @@
    ("videos" :>
        { <<"M", "P", "4">>, <<"A", "V", "I">>, <<"M", "O", "V">>,
          <<"W", "e", "b", "M">> }) @@
    ("audio" :>
        { <<"M", "P", "3">>, <<"W", "A", "V">>, <<"O", "G", "G">>,
          <<"M", "4", "A">> }) @@
    ("documents" :>
        { <<"P", "D", "F">>, <<"D", "O", "C">>, <<"D", "O", "C", "X">>,
          <<"X", "L", "S">>, <<"X", "L", "S", "X">>, <<"P", "P", "T">>,
          <<"P", "P", "T", "X">> }) @@
    ("code" :>
        { <<"J", "S">>, <<"T", "S">>, <<"H", "T", "M", "L">>,
          <<"C", "S", "S">>, <<"J", "S", "O", "N">>, <<"X", "M", "L">>,
          <<"T", "X", "T">>, <<"M", "D">> }) @@
    ("archives" :>
        { <<"Z", "I", "P">>, <<"R", "A", "R">>, <<"7", "Z">>,
          <<"T", "A", "R">>, <<"G", "Z">> })

NamedFilters == DOMAIN FileTypeSupport

\* The file's name ends with a dot and extension ext, in any case of letters
HasExtension(file, ext) ==
    LET n == ToLowerCase(file.name)
        suffix == <<Dot>> \o ToLowerCase(ext)
    IN Len(n) >= Len(suffix) /\ SubSeq(n, Len(n) - Len(suffix) + 1, Len(n)) = suffix

\* The extensions the names of the listings are built from: those of the table
\* as written and in small letters, those getMimeType or the filter know beyond
\* the table, and unknown ones
TypeExtensions ==
    UNION {FileTypeSupport[T] : T \in NamedFilters}
        \cup {ToLowerCase(x) : x \in UNION {FileTypeSupport[T] : T \in NamedFilters}}
        \cup { <<"j", "p", "e", "g">>, <<"b", "m", "p">>, <<"w", "m", "v">>,
               <<"f", "l", "v">>, <<"f", "l", "a", "c">>, <<"p", "y">>,
               <<"j", "a", "v", "a">>, <<"c", "p", "p">>, <<"c">>,
               <<"e", "x", "e">>, <<"J", "p", "g">>, <<>> }
\* The names: a stem with an extension, two dots, a leading dot, no dot at all
TypeNames ==
    { <<"a", Dot>> \o x : x \in TypeExtensions }
        \cup { <<"a", Dot, "t", "a", "r", Dot, "g", "z">>, <<Dot, "g", "z">>,
               <<"p", "d", "f">>, <<"a">>, <<"m", "p", "4", Dot, "C">> }
\* The listings: at most one folder, one file of TypeNames, and at most one of
\* two further files
TypeListings ==
    { folders \o <<TypedFile(<<>>, n, 1, 1)>> \o more :
        folders \in { <<>>, <<SortFolder(<<"a">>, 3)>>, <<SortFolder(<<"p", "d", "f">>, 3)>> },
        n \in TypeNames,
        more \in { <<>>, <<TypedFile(<<>>, <<"b", Dot, "p", "d", "f">>, 2, 2)>>,
                   <<TypedFile(<<>>, <<"b", Dot, "P", "N", "G">>, 2, 2)>> } }

\* The dashboard, connected, showing a listing under the default controls
InitType ==
    /\ ThumbInit /\ SessionInit /\ ShareInit /\ SortInit /\ NavInit
    /\ bucket = EmptyBucket
    /\ isConnected = TRUE
    /\ credentials = Credentials("k", "b")
    /\ currentPath = <<>>
    /\ files \in TypeListings
    /\ selectedFile = NoFile
    /\ selectedFiles = <<>>
    /\ loading = FALSE
    /\ showRename = FALSE
    /\ fileToRename = NoFile
    /\ renameName = <<>>
    /\ showCreateFolder = FALSE
    /\ newFolderName = <<>>
    /\ task = Idle
    /\ log = <<>>
    /\ before = EmptyBucket
    /\ notice = "none"
    /\ actions = 0
    /\ call = NoCall
    /\ ret = NoRet

NextType ==
    \/ SetSearchTerm
    \/ SetFilterType

SpecType == InitType /\ [][NextType]_vars

\* The file is in the displayed list
IsShown(file) == \E j \in 1..Len(Shown) : Shown[j] = file

\* C21: with a type filter T among images, videos, audio, documents, code and
\* archives, the displayed list holds no folder, and a listed file whose name
\* has an extension the README's table gives for a category is displayed exactly
\* when T is that category (and the file passes the search box): under its own
\* category and under none of the other five.
C21_TypeFilter ==
    filterType \in NamedFilters =>
        /\ \A j \in 1..Len(Shown) : Shown[j].type # "folder"
        /\ \A i \in 1..Len(files) : \A T \in NamedFilters :
              (files[i].type = "file" /\ \E x \in FileTypeSupport[T] : HasExtension(files[i], x))
                 => (IsShown(files[i])
                        <=> (filterType = T
                             /\ (searchTerm = <<>> \/ MatchesSearch(files[i], searchTerm))))

\* C21 witness: under the images filter and an empty search box, a listing of a
\* folder, a file named with the table's "WebP" and a PDF shows just the WebP file
C21_Witness ==
    /\ filterType = "images" /\ searchTerm = <<>>
    /\ Len(files) = 3 /\ Len(Shown) = 1
    /\ files[1].type = "folder"
    /\ HasExtension(files[3], <<"p", "d", "f">>)
    /\ Shown[1].name = <<"a", Dot, "W", "e", "b", "P">>
    /\ Shown[1].mimeType = "image/webp"

(***************************************************************************)
(* SpecNav: navigations and uploads whose list requests are in flight side *)
(* by side and complete in any order.                                      *)
(***************************************************************************)
MaxUploads == 1

navRest == <<isConnected, credentials, selectedFile, selectedFiles, showRename,
             fileToRename, renameName, showCreateFolder, newFolderName, task, log,
             before, notice, call, ret, thumbVars, sessionVars, shareVars, sortVars>>

\* The buckets navigated: folders one and two levels deep
NavBuckets ==
    InitialBuckets
        \cup { (<<"a", "/">> :> 0) @@ (<<"a", "/", "b", "/">> :> 0) @@ (<<"b">> :> 1) }

\* The dashboard, connected, showing the root of the bucket
InitNav ==
    /\ ThumbInit /\ SessionInit /\ ShareInit /\ SortInit /\ NavInit
    /\ bucket \in NavBuckets
    /\ isConnected = TRUE
    /\ credentials = Credentials("k", "b")
    /\ currentPath = <<>>
    /\ files = listFiles(bucket, <<>>)
    /\ selectedFile = NoFile
    /\ selectedFiles = <<>>
    /\ loading = FALSE
    /\ showRename = FALSE
    /\ fileToRename = NoFile
    /\ renameName = <<>>
    /\ showCreateFolder = FALSE
    /\ newFolderName = <<>>
    /\ task = Idle
    /\ log = <<>>
    /\ before = EmptyBucket
    /\ notice = "none"
    /\ actions = 0
    /\ call = NoCall
    /\ ret = NoRet

\* Index.loadFiles up to its await: setLoading(true), the list request is sent
CallLoadFiles(path) ==
    /\ loads' = Append(loads, path)
    /\ latest' = [path |-> path, state |-> "pending"]
    /\ loading' = TRUE

\* Where onNavigate may be called: the Root button and the breadcrumb buttons
\* at any time; a folder entry and the refresh button while nothing is loading
\* (the spinner replaces the entries, the refresh button is disabled)
RaceTargets ==
    {<<>>} \cup BreadcrumbTargets
        \cup (IF loading THEN {}
              ELSE {currentPath}
                     \cup {Displayed[i].key :
                             i \in {j \in 1..Len(Displayed) : Displayed[j].type = "folder"}})

\* Index.handleNavigate
Navigate ==
    /\ Dashboard
    /\ actions < MaxActions
    /\ actions' = actions + 1
    /\ \E path \in RaceTargets : CallLoadFiles(path)
    /\ UNCHANGED <<bucket, currentPath, files, uploads>>
    /\ UNCHANGED navRest

\* loads without its i-th call
WithoutLoad(i) == SubSeq(loads, 1, i - 1) \o SubSeq(loads, i + 1, Len(loads))

\* Index.loadFiles after its await, for any one of the calls in flight: setFiles
\* and setCurrentPath, or the error logged; then setLoading(false)
LoadSettled ==
    /\ \E i \in 1..Len(loads) : \E ok \in BOOLEAN :
        /\ IF ok
           THEN files' = listFiles(bucket, loads[i]) /\ currentPath' = loads[i]
           ELSE UNCHANGED <<files, currentPath>>
        /\ loads' = WithoutLoad(i)
        /\ latest' = IF i = Len(loads) /\ latest.state = "pending"
                     THEN [latest EXCEPT !.state = IF ok THEN "ok" ELSE "failed"]
                     ELSE latest
    /\ loading' = FALSE
    /\ UNCHANGED <<bucket, uploads, actions>>
    /\ UNCHANGED navRest

\* Index.handleUpload for one file, up to the await of uploadFile
BeginUpload ==
    /\ Dashboard
    /\ actions < MaxActions
    /\ Cardinality(uploads) < MaxUploads
    /\ actions' = actions + 1
    /\ \E f \in UploadCandidates :
        /\ [path |-> currentPath, file |-> f] \notin uploads
        /\ uploads' = uploads \cup {[path |-> currentPath, file |-> f]}
    /\ UNCHANGED <<bucket, currentPath, files, loading, loads, latest>>
    /\ UNCHANGED navRest

\* handleUpload after uploadFile: the error thrown, or loadFiles(currentPath)
\* with the currentPath the handler was created with
UploadSettled ==
    /\ \E u \in uploads : \E ok \in BOOLEAN :
        /\ uploads' = uploads \ {u}
        /\ IF ok
           THEN /\ bucket' = PutObject(bucket, UploadKey(u.path, u.file.name), u.file.size)
                /\ CallLoadFiles(u.path)
           ELSE UNCHANGED <<bucket, loads, latest, loading>>
    /\ UNCHANGED <<currentPath, files, actions>>
    /\ UNCHANGED navRest

NextNav ==
    \/ Navigate
    \/ LoadSettled
    \/ BeginUpload
    \/ UploadSettled

SpecNav == InitNav /\ [][NextNav]_vars

\* C22: when no list request is outstanding and the one made last has
\* succeeded, currentPath is the path of that request and files is its listing:
\* no response of an earlier request has overwritten them.
C22_LastRequestWins ==
    (loads = <<>> /\ latest.state = "ok") =>
        /\ currentPath = latest.path
        /\ files = listFiles(bucket, latest.path)

====
